---- MODULE Spec2Model ----
(***************************************************************************)
(* Model of the RevisionFlow backend: the Task document with its embedded  *)
(* revisions (models/Task.js), the task controller handlers                *)
(* (controllers/tasksController.js), the timezone helpers                  *)
(* (utils/timezoneUtils.js) and the daily reminder job                     *)
(* (services/cronService.js).                                              *)
(*                                                                         *)
(* An instant is a whole number of minutes since the model's epoch, which  *)
(* is a UTC midnight.  Day is 24 hours.  NoDate stands for an undefined    *)
(* Date field.                                                             *)
(***************************************************************************)
EXTENDS Integers, Sequences, FiniteSets, TLC

Day == 1440
Hour == 60
NoDate == -1

\* ---- bounds of the model ----
MaxInputRevisions == 1
MaxTicks == 1
MaxPostponeDay == 4
MaxCronTicks == 2

\* ---- input sets ----
Users == {"u1", "u2"}
\* the users who create tasks; u2 owns none and only names tasks of u1
Creators == {"u1"}
TaskIds == {"t1"}
ReqIds == {"a", "b"}
CompletedDates == {600, 4 * Day}
InputDates == {0, 2 * Day + 600}
NowStart == 5 * Day + 17
VARIABLES
  tasks,     \* the Task collection: task id -> stored document
  now,       \* the wall clock (new Date())
  resp,      \* the response of the last request
  reqs,      \* the requests in flight: request -> handler position and locals
  host,      \* the time zone of the server process
  returned,  \* the value returned by the last call of a query function
  users,     \* the User collection, in natural order
  run,       \* the daily reminder run: position, users left, counters, log
  prev,      \* the log of the run before this one
  outbox,    \* the reminder emails handed to the transporter
  proc,      \* the server process: up, shutting down or exited
  env        \* process.env.NODE_ENV

vars == <<tasks, now, resp, reqs, host, returned, users, run, prev, outbox, proc, env>>

\* what the task API leaves alone
jobVars == <<host, returned, users, run, prev, outbox, proc, env>>

\* ---------------------------------------------------------------------
\* helpers

SeqsUpTo(S, n) == UNION {[1..k -> S] : k \in 0..n}

Min(S) == CHOOSE x \in S : \A y \in S : x <= y

\* n fresh revision ids (new ObjectIds): none of them is an id in `used`
FreshIds(used, n) ==
  LET free == {i \in 1..(Cardinality(used) + n) : i \notin used}
      RECURSIVE pick(_, _)
      pick(S, k) == IF k = 0 THEN <<>> ELSE <<Min(S)>> \o pick(S \ {Min(S)}, k - 1)
  IN pick(free, n)

IdsOf(revs) == {revs[i].id : i \in 1..Len(revs)}

\* ---------------------------------------------------------------------
\* models/Task.js

\* assigning an array of plain objects to task.revisions: each becomes a
\* revision subdocument with a new id; status defaults to 'pending',
\* completedAt is undefined unless given
AssignRevisions(task, items) ==
  LET ids == FreshIds(IdsOf(task.revisions), Len(items))
  IN [task EXCEPT !.revisions =
        [i \in 1..Len(items) |->
           [id |-> ids[i],
            scheduledDate |-> items[i].scheduledDate,
            status |-> IF items[i].status = "" THEN "pending" ELSE items[i].status,
            completedAt |-> items[i].completedAt]]]

\* a validator written with `some` in place of `every`
RevisionsValidatorSome(task) ==
  \/ Len(task.revisions) = 0
  \/ \E i \in 1..Len(task.revisions) :
       task.revisions[i].scheduledDate >= task.completedDate

\* TaskSchema.revisions validator
RevisionsValidator(task) ==
  \A i \in 1..Len(task.revisions) :
    task.revisions[i].scheduledDate >= task.completedDate

\* RevisionSchema.status enum and its validator, run on every subdocument
StatusValidator(task) ==
  \A i \in 1..Len(task.revisions) : task.revisions[i].status \in {"pending", "done", "skipped", "postponed"}

\* document validation before save
Validate(task) == RevisionsValidator(task) /\ StatusValidator(task)

\* a default schedule that lists the 7th day before the 3rd
addDefaultRevisionsLateFirst(task) ==
  AssignRevisions(task,
    <<[scheduledDate |-> task.completedDate + 7 * Day, status |-> "", completedAt |-> NoDate],
      [scheduledDate |-> task.completedDate + 3 * Day, status |-> "", completedAt |-> NoDate]>>)

\* TaskSchema.methods.addDefaultRevisions
addDefaultRevisions(task) ==
  AssignRevisions(task,
    <<[scheduledDate |-> task.completedDate + 3 * Day, status |-> "", completedAt |-> NoDate],
      [scheduledDate |-> task.completedDate + 7 * Day, status |-> "", completedAt |-> NoDate]>>)

\* a pre-save hook that fills an empty schedule on every save
preSaveEverySave(task, isNew) ==
  IF Len(task.revisions) = 0 THEN addDefaultRevisions(task) ELSE task

\* TaskSchema.pre('save')
preSave(task, isNew) ==
  IF isNew /\ Len(task.revisions) = 0 THEN addDefaultRevisions(task) ELSE task

\* a lookup that falls back to the first revision when the id is absent
RevisionIndexOrFirst(task, revisionId) ==
  IF \E i \in 1..Len(task.revisions) : task.revisions[i].id = revisionId
  THEN CHOOSE i \in 1..Len(task.revisions) : task.revisions[i].id = revisionId
  ELSE IF Len(task.revisions) > 0 THEN 1 ELSE 0

\* this.revisions.id(revisionId): index of the subdocument, 0 when absent
RevisionIndex(task, revisionId) ==
  IF \E i \in 1..Len(task.revisions) : task.revisions[i].id = revisionId
  THEN CHOOSE i \in 1..Len(task.revisions) : task.revisions[i].id = revisionId
  ELSE 0

\* a status update that keeps the completedAt of a revision already done
updateRevisionStatusKeepFirst(task, revisionId, status, at) ==
  LET i == RevisionIndex(task, revisionId)
  IN IF i = 0 THEN [ok |-> FALSE, task |-> task]
     ELSE [ok |-> TRUE,
           task |-> [task EXCEPT !.revisions[i].status = status,
                                 !.revisions[i].completedAt =
                                    IF status # "done" THEN NoDate
                                    ELSE IF task.revisions[i].status = "done"
                                    THEN task.revisions[i].completedAt
                                    ELSE at]]

\* a status update that writes the status to every revision of the task
updateRevisionStatusAll(task, revisionId, status, at) ==
  LET i == RevisionIndex(task, revisionId)
  IN IF i = 0 THEN [ok |-> FALSE, task |-> task]
     ELSE [ok |-> TRUE,
           task |-> [task EXCEPT !.revisions =
                       [j \in 1..Len(task.revisions) |->
                          [task.revisions[j] EXCEPT
                             !.status = status,
                             !.completedAt = IF status = "done" THEN at ELSE NoDate]]]]

\* TaskSchema.methods.updateRevisionStatus
updateRevisionStatus(task, revisionId, status, at) ==
  LET i == RevisionIndex(task, revisionId)
  IN IF i = 0 THEN [ok |-> FALSE, task |-> task]
     ELSE [ok |-> TRUE,
           task |-> [task EXCEPT !.revisions[i].status = status,
                                 !.revisions[i].completedAt =
                                    IF status = "done" THEN at ELSE NoDate]]

\* a reschedule that moves the date and keeps the status
rescheduleRevisionKeepStatus(task, revisionId, newDate) ==
  LET i == RevisionIndex(task, revisionId)
  IN IF i = 0 THEN [ok |-> FALSE, task |-> task]
     ELSE [ok |-> TRUE,
           task |-> [task EXCEPT !.revisions[i].scheduledDate = newDate]]

\* a reschedule that clamps an early date to the completion date
rescheduleRevisionClamped(task, revisionId, newDate) ==
  LET i == RevisionIndex(task, revisionId)
      d == IF newDate < task.completedDate THEN task.completedDate ELSE newDate
  IN IF i = 0 THEN [ok |-> FALSE, task |-> task]
     ELSE [ok |-> TRUE,
           task |-> [task EXCEPT !.revisions[i].scheduledDate = d,
                                 !.revisions[i].status = "pending"]]

\* TaskSchema.methods.rescheduleRevision
rescheduleRevision(task, revisionId, newDate) ==
  LET i == RevisionIndex(task, revisionId)
  IN IF i = 0 THEN [ok |-> FALSE, task |-> task]
     ELSE [ok |-> TRUE,
           task |-> [task EXCEPT !.revisions[i].scheduledDate = newDate,
                                 !.revisions[i].status = "pending"]]

\* setUTCDate(getUTCDate() + 1); setUTCHours(0, 0, 0, 0)
NextUTCMidnight(d) == ((d \div Day) + 1) * Day

\* a postpone that puts a new revision in the place of the postponed one
postponeRevisionAsNew(task, revisionId) ==
  LET i == RevisionIndex(task, revisionId)
      tomorrow == NextUTCMidnight(task.revisions[i].scheduledDate)
  IN IF i = 0 THEN [success |-> FALSE, task |-> task, newDate |-> NoDate]
     ELSE [success |-> TRUE,
           task |-> [task EXCEPT !.revisions[i] =
                       [id |-> FreshIds(IdsOf(task.revisions), 1)[1],
                        scheduledDate |-> tomorrow,
                        status |-> "pending",
                        completedAt |-> NoDate]],
           newDate |-> tomorrow]

\* a postpone that moves the revision to the day after today
postponeRevisionFromToday(task, revisionId) ==
  LET i == RevisionIndex(task, revisionId)
      tomorrow == NextUTCMidnight(now)
  IN IF i = 0 THEN [success |-> FALSE, task |-> task, newDate |-> NoDate]
     ELSE [success |-> TRUE,
           task |-> [task EXCEPT !.revisions[i].scheduledDate = tomorrow,
                                 !.revisions[i].status = "pending"],
           newDate |-> tomorrow]

\* a postpone that sets the time of day to 00:00 UTC and leaves the day
postponeRevisionSameDay(task, revisionId) ==
  LET i == RevisionIndex(task, revisionId)
      tomorrow == (task.revisions[i].scheduledDate \div Day) * Day
  IN IF i = 0 THEN [success |-> FALSE, task |-> task, newDate |-> NoDate]
     ELSE [success |-> TRUE,
           task |-> [task EXCEPT !.revisions[i].scheduledDate = tomorrow,
                                 !.revisions[i].status = "pending"],
           newDate |-> tomorrow]

\* TaskSchema.methods.postponeRevision
postponeRevision(task, revisionId) ==
  LET i == RevisionIndex(task, revisionId)
      tomorrow == NextUTCMidnight(task.revisions[i].scheduledDate)
  IN IF i = 0 THEN [success |-> FALSE, task |-> task, newDate |-> NoDate]
     ELSE [success |-> TRUE,
           task |-> [task EXCEPT !.revisions[i].scheduledDate = tomorrow,
                                 !.revisions[i].status = "pending"],
           newDate |-> tomorrow]

\* a save that writes the whole in-memory document back
SaveWhole(stored, loaded, doc) == doc

\* document.save() of a loaded document: the update sets the paths that
\* were modified in memory.  Fields of one revision subdocument are separate
\* paths; an assigned revisions array is one path.
SaveDelta(stored, loaded, doc) ==
  LET arrayAssigned ==
        \/ Len(doc.revisions) # Len(loaded.revisions)
        \/ \E i \in 1..Len(doc.revisions) : doc.revisions[i].id # loaded.revisions[i].id
      pick(f, i) == IF doc.revisions[i][f] # loaded.revisions[i][f]
                    THEN doc.revisions[i][f] ELSE stored.revisions[i][f]
  IN [user |-> stored.user,
      completedDate |-> IF doc.completedDate # loaded.completedDate
                        THEN doc.completedDate ELSE stored.completedDate,
      isArchived |-> stored.isArchived,
      revisions |->
        IF arrayAssigned THEN doc.revisions
        ELSE [i \in 1..Len(stored.revisions) |->
                [id |-> stored.revisions[i].id,
                 scheduledDate |-> pick("scheduledDate", i),
                 status |-> pick("status", i),
                 completedAt |-> pick("completedAt", i)]]]

\* ---------------------------------------------------------------------
\* responses

Response(code, error, newDate) == [code |-> code, error |-> error, newDate |-> newDate]
Ok(code) == Response(code, "", NoDate)
TaskNotFound == Response(404, "Task not found", NoDate)
RevisionNotFound == Response(404, "Revision not found", NoDate)
\* a Mongoose ValidationError passed to next(error), with the message of the
\* validator that failed
DateValidationError == Response(400, "Revision dates must be after completion date", NoDate)
ValidationFailure(task) ==
  IF ~RevisionsValidator(task) THEN DateValidationError
  ELSE Response(400, "Status must be pending, done, skipped, or postponed", NoDate)

\* no request has been answered, or the last response has gone out
NoResponse == Response(0, "", NoDate)

\* a lookup by _id alone
FoundById(id, u) == id \in DOMAIN tasks

\* Task.findOne({ _id, user })
Found(id, u) == id \in DOMAIN tasks /\ tasks[id].user = u

Store(id, task) ==
  [x \in DOMAIN tasks \cup {id} |-> IF x = id THEN task ELSE tasks[x]]

EmptyStore == [x \in {} |-> 0]

\* ---------------------------------------------------------------------
\* request inputs

\* req.body.revisions of POST /api/tasks: an array of ISO dates
DateLists == SeqsUpTo(InputDates, MaxInputRevisions)

Item(d, st, ca) == [scheduledDate |-> d, status |-> st, completedAt |-> ca]

\* req.body.revisions of PATCH /api/tasks/:id/schedule
\* (taskValidation.updateSchedule: status, when given, is pending, done or
\* skipped; other fields of the object, here completedAt, are not checked)
ScheduleLists ==
  SeqsUpTo({Item(d, "", NoDate) : d \in InputDates}
             \cup {Item(d, "pending", NowStart) : d \in InputDates \ {0}},
           MaxInputRevisions)

\* req.body.revisions of PUT /api/tasks/:id: absent, or an array of date
\* strings and of objects with a scheduledDate (validateRequest.js
\* taskValidation.update); a string is kept as kind "string"
UpdateLists ==
  LET UpdateItems ==
        {[kind |-> "string", value |-> Item(d, "", NoDate)] : d \in InputDates}
        \cup {[kind |-> "object", value |-> Item(d, "postponed", NoDate)] :
                d \in InputDates \ {0}}
  IN {[present |-> FALSE, items |-> <<>>]}
     \cup {[present |-> TRUE, items |-> l] : l \in SeqsUpTo(UpdateItems, MaxInputRevisions)}

\* req.body.status of PATCH .../revisions/:revisionId/complete; the route has
\* no validation, "" is an absent status, "archived" a value outside the enum
StatusInputs == {"", "pending", "done", "skipped", "postponed", "archived"}

\* req.params.revisionId: an id of the task, or 0, an id no revision has
RevisionIdInputs(id) ==
  {0} \cup (IF id \in DOMAIN tasks THEN IdsOf(tasks[id].revisions) ELSE {})

\* ---------------------------------------------------------------------
\* controllers/tasksController.js
\*
\* A handler maps the request and the stored tasks to its outcome: the
\* stored tasks after it and the response it sends.

Outcome(t, r) == [tasks |-> t, resp |-> r]

\* await task.save() of a loaded and modified document, then res.json
SaveLoaded(id, loaded, doc, ok) ==
  IF Validate(doc)
  THEN Outcome(Store(id, SaveDelta(tasks[id], loaded, preSave(doc, FALSE))), ok)
  ELSE Outcome(tasks, ValidationFailure(doc))

\* id: the _id of the new document
createTask(u, completedDate, revisions, id) ==
  LET task0 == [user |-> u, completedDate |-> completedDate,
                revisions |-> <<>>, isArchived |-> FALSE]
      task == AssignRevisions(task0,
                [i \in 1..Len(revisions) |-> Item(revisions[i], "pending", NoDate)])
  IN IF Validate(task)
     THEN Outcome(Store(id, preSave(task, TRUE)), Ok(201))
     ELSE Outcome(tasks, ValidationFailure(task))

\* the data of the response is the stored task
getTask(u, id) ==
  IF ~Found(id, u) THEN Outcome(tasks, TaskNotFound)
  ELSE Outcome(tasks, Ok(200))

updateTask(u, id, completedDate, revisions) ==
  IF ~Found(id, u) THEN Outcome(tasks, TaskNotFound)
  ELSE LET loaded == tasks[id]
           t1 == IF completedDate # NoDate
                 THEN [loaded EXCEPT !.completedDate = completedDate]
                 ELSE loaded
           t2 == IF revisions.present
                 THEN AssignRevisions(t1,
                        [i \in 1..Len(revisions.items) |->
                           IF revisions.items[i].kind = "string"
                           THEN [revisions.items[i].value EXCEPT !.status = "pending"]
                           ELSE revisions.items[i].value])
                 ELSE t1
       IN SaveLoaded(id, loaded, t2, Ok(200))

updateTaskSchedule(u, id, revisions) ==
  IF ~Found(id, u) THEN Outcome(tasks, TaskNotFound)
  ELSE SaveLoaded(id, tasks[id], AssignRevisions(tasks[id], revisions), Ok(200))

markRevisionComplete(u, id, revisionId, status) ==
  IF ~Found(id, u) THEN Outcome(tasks, TaskNotFound)
  ELSE IF status = "postponed"
  THEN LET result == postponeRevision(tasks[id], revisionId)
       IN IF ~result.success
          THEN Outcome(tasks, Response(404, "Revision not found or postpone failed", NoDate))
          ELSE IF Validate(result.task)
          THEN SaveLoaded(id, tasks[id], result.task, Response(200, "", result.newDate))
          ELSE Outcome(tasks, Response(500, "Failed to save postponed revision", NoDate))
  ELSE LET r == updateRevisionStatus(tasks[id], revisionId,
                                     IF status = "" THEN "done" ELSE status, now)
       IN IF ~r.ok THEN Outcome(tasks, RevisionNotFound)
          ELSE SaveLoaded(id, tasks[id], r.task, Ok(200))

RescheduleRevision(u, id, revisionId, newDate) ==
  IF ~Found(id, u) THEN Outcome(tasks, TaskNotFound)
  ELSE LET r == rescheduleRevision(tasks[id], revisionId, newDate)
       IN IF ~r.ok THEN Outcome(tasks, RevisionNotFound)
          ELSE SaveLoaded(id, tasks[id], r.task, Ok(200))

\* Task.findOneAndUpdate({ _id, user }, { isArchived: archived })
archiveTask(u, id, archived) ==
  IF ~Found(id, u) THEN Outcome(tasks, TaskNotFound)
  ELSE Outcome(Store(id, [tasks[id] EXCEPT !.isArchived = archived]), Ok(200))

deleteTask(u, id) ==
  IF ~Found(id, u) THEN Outcome(tasks, TaskNotFound)
  ELSE Outcome([x \in DOMAIN tasks \ {id} |-> tasks[x]], Ok(200))

\* ---------------------------------------------------------------------
\* the task API, one request at a time

\* the request is served: its outcome becomes the state
Serve(outcome) ==
  /\ resp = NoResponse
  /\ tasks' = outcome.tasks
  /\ resp' = outcome.resp
  /\ UNCHANGED <<now, reqs, jobVars>>

\* a request whose task is not found returns before it reads its other
\* inputs, so one value stands for all of them
InputsOf(u, id, S) == IF Found(id, u) THEN S ELSE {CHOOSE x \in S : TRUE}

CreateTaskStep ==
  \E u \in Creators, cd \in CompletedDates, revs \in DateLists :
    \E id \in TaskIds \ DOMAIN tasks : Serve(createTask(u, cd, revs, id))

GetTaskStep ==
  \E u \in Users, id \in TaskIds : Serve(getTask(u, id))

UpdateTaskStep ==
  \E u \in Users, id \in TaskIds :
    \E cd \in InputsOf(u, id, CompletedDates \cup {NoDate}),
       revs \in InputsOf(u, id, UpdateLists) :
      Serve(updateTask(u, id, cd, revs))

UpdateTaskScheduleStep ==
  \E u \in Users, id \in TaskIds :
    \E revs \in InputsOf(u, id, ScheduleLists) :
      Serve(updateTaskSchedule(u, id, revs))

MarkRevisionCompleteStep ==
  \E u \in Users, id \in TaskIds :
    \E st \in InputsOf(u, id, StatusInputs), rid \in InputsOf(u, id, RevisionIdInputs(id)) :
      \* a revision scheduled on or after MaxPostponeDay is not postponed further
      /\ (Found(id, u) /\ st = "postponed" /\ RevisionIndex(tasks[id], rid) # 0) =>
           tasks[id].revisions[RevisionIndex(tasks[id], rid)].scheduledDate
             < MaxPostponeDay * Day
      /\ Serve(markRevisionComplete(u, id, rid, st))

RescheduleRevisionStep ==
  \E u \in Users, id \in TaskIds :
    \E d \in InputsOf(u, id, InputDates), rid \in InputsOf(u, id, RevisionIdInputs(id)) :
      Serve(RescheduleRevision(u, id, rid, d))

ArchiveTaskStep ==
  \E u \in Users, id \in TaskIds :
    \E a \in InputsOf(u, id, BOOLEAN) : Serve(archiveTask(u, id, a))

DeleteTaskStep ==
  \E u \in Users, id \in TaskIds : Serve(deleteTask(u, id))

\* the response has gone out: the server waits for the next request
ResponseSent ==
  /\ resp # NoResponse
  /\ resp' = NoResponse
  /\ UNCHANGED <<tasks, now, reqs, jobVars>>

\* time passes between requests
Tick ==
  /\ resp = NoResponse
  /\ now < NowStart + MaxTicks
  /\ now' = now + 1
  /\ UNCHANGED <<tasks, resp, reqs, jobVars>>

\* no handler has been entered
NoRequests ==
  [r \in ReqIds |->
     [pc |-> "idle", status |-> "", revisionId |-> 0, newDate |-> NoDate,
      loaded |-> <<>>, doc |-> <<>>, resp |-> NoResponse]]

NoOutput == [fn |-> "", userId |-> "", timezone |-> "", date |-> NoDate, value |-> <<>>]

\* no run yet. n counts the runs started; log (user -> outcome and resolved
\* due-set) and failed (the users one of whose steps failed) record what the
\* run writes to the logger
\* calls: the calls of sendDailyRevisionReminder made by the run
IdleRun == [pc |-> "idle", n |-> 0, queue |-> <<>>, remindersSent |-> 0, errors |-> 0,
            log |-> EmptyStore, failed |-> {}, calls |-> <<>>]

\* the process is up, no signal has arrived.  From the signal on, inRun
\* tells whether a reminder run was in progress when it arrived and logged
\* holds the users that run had processed by then
ProcessUp == [phase |-> "up", inRun |-> FALSE, logged |-> {}]

\* no scheduled job and no query is part of the behaviour
JobsIdle ==
  /\ proc = ProcessUp
  /\ env = "development"
  /\ host = "UTC"
  /\ returned = NoOutput
  /\ users = <<>>
  /\ run = IdleRun
  /\ prev = EmptyStore
  /\ outbox = {}

Init ==
  /\ tasks = EmptyStore
  /\ now = NowStart
  /\ resp = NoResponse
  /\ reqs = NoRequests
  /\ JobsIdle

Next ==
  \/ CreateTaskStep
  \/ GetTaskStep
  \/ UpdateTaskStep
  \/ UpdateTaskScheduleStep
  \/ MarkRevisionCompleteStep
  \/ RescheduleRevisionStep
  \/ ArchiveTaskStep
  \/ DeleteTaskStep
  \/ ResponseSent
  \/ Tick

Spec == Init /\ [][Next]_vars

\* the task API while the clock stands still: the requests of one instant
SpecStill ==
  Init /\ [][\/ CreateTaskStep \/ GetTaskStep \/ UpdateTaskStep \/ UpdateTaskScheduleStep
             \/ MarkRevisionCompleteStep \/ RescheduleRevisionStep \/ ArchiveTaskStep
             \/ DeleteTaskStep \/ ResponseSent]_vars

\* ---------------------------------------------------------------------
\* Two status-transition requests of the owner on one task, interleaved at
\* their awaits: `await Task.findOne(...)`, then the in-memory mutation, then
\* `await task.save()`.

\* the task both requests name: created with the default schedule
ConcTask ==
  preSave([user |-> "u1", completedDate |-> 600, revisions |-> <<>>,
           isArchived |-> FALSE], TRUE)

\* findOne has resolved: the handler mutates its document in memory
\* (markRevisionComplete when newDate is NoDate, rescheduleRevision otherwise)
Mutate(loaded, revisionId, status, newDate) ==
  IF newDate # NoDate
  THEN LET r == rescheduleRevision(loaded, revisionId, newDate)
       IN [ok |-> r.ok, doc |-> r.task, resp |-> Ok(200)]
  ELSE IF status = "postponed"
  THEN LET r == postponeRevision(loaded, revisionId)
       IN [ok |-> r.success, doc |-> r.task, resp |-> Response(200, "", r.newDate)]
  ELSE LET r == updateRevisionStatus(loaded, revisionId,
                                     IF status = "" THEN "done" ELSE status, now)
       IN [ok |-> r.ok, doc |-> r.task, resp |-> Ok(200)]

\* the handler runs from its entry to `await task.save()`
ReqFind ==
  \E r \in ReqIds, revisionId \in IdsOf(ConcTask.revisions) \cup {0},
     status \in {"done", "skipped", "postponed"}, newDate \in InputDates \cup {NoDate} :
  /\ reqs[r].pc = "idle"
  /\ "t1" \in DOMAIN tasks
  /\ LET loaded == tasks["t1"]
         m == Mutate(loaded, revisionId, status, newDate)
     IN reqs' = [reqs EXCEPT ![r] =
          [pc |-> IF m.ok /\ Validate(m.doc) THEN "saving" ELSE "done",
           status |-> status, revisionId |-> revisionId, newDate |-> newDate,
           loaded |-> loaded, doc |-> m.doc,
           resp |-> IF ~m.ok THEN RevisionNotFound
                    ELSE IF ~Validate(m.doc) THEN ValidationFailure(m.doc)
                    ELSE m.resp]]
  /\ UNCHANGED <<tasks, now, resp, jobVars>>

\* the update of save() reaches the database and the response is sent
ReqSave ==
  \E r \in ReqIds :
  /\ reqs[r].pc = "saving"
  /\ tasks' = Store("t1", SaveDelta(tasks["t1"], reqs[r].loaded, reqs[r].doc))
  /\ reqs' = [reqs EXCEPT ![r].pc = "done"]
  /\ UNCHANGED <<now, resp, jobVars>>

InitConc ==
  /\ tasks = [id \in TaskIds |-> ConcTask]
  /\ now = NowStart
  /\ resp = NoResponse
  /\ reqs = NoRequests
  /\ JobsIdle

SpecConc == InitConc /\ [][ReqFind \/ ReqSave]_vars

\* the mutation of a request that was saved, applied to a task
Applied(task, req) ==
  IF req.resp.code = 200
  THEN Mutate(task, req.revisionId, req.status, req.newDate).doc
  ELSE task

\* C6: when two status-transition requests on different revisions of one
\* task have both completed, in any interleaving of their reads and writes,
\* the stored task holds the mutation of each.
BothMutationsStored ==
  ( /\ \A r \in ReqIds : reqs[r].pc = "done"
    /\ reqs["a"].revisionId # reqs["b"].revisionId )
  => tasks["t1"] = Applied(Applied(ConcTask, reqs["a"]), reqs["b"])

\* mark-done on the first revision and postpone on the second, each read
\* before the other's write, both saved
InterleavedDoneAndPostpone ==
  /\ \A r \in ReqIds : reqs[r].pc = "done" /\ reqs[r].loaded = ConcTask
                          /\ reqs[r].resp.code = 200
  /\ reqs["a"].status = "done" /\ reqs["a"].newDate = NoDate
  /\ reqs["a"].revisionId = ConcTask.revisions[1].id
  /\ reqs["b"].status = "postponed" /\ reqs["b"].newDate = NoDate
  /\ reqs["b"].revisionId = ConcTask.revisions[2].id

\* ---------------------------------------------------------------------
\* properties of the task API

DatesOf(revs) == {revs[i].scheduledDate : i \in 1..Len(revs)}

\* C1: in every state reached by task operations, every stored revision of
\* every stored task is scheduled at or after the task's completedDate,
\* also after an update that edits only completedDate.
RevisionsNotBeforeCompletion ==
  \A id \in DOMAIN tasks : \A i \in 1..Len(tasks[id].revisions) :
    tasks[id].revisions[i].scheduledDate >= tasks[id].completedDate

\* a task whose completedDate was moved forward while it kept a revision of
\* its first default schedule
CompletedDateEdited ==
  \E id \in DOMAIN tasks :
    /\ tasks[id].completedDate = 4 * Day
    /\ 600 + 7 * Day \in DatesOf(tasks[id].revisions)

\* a request that asks for a revision date before the completion date
EarlyDate(dates, completedDate) == \E d \in dates : d < completedDate

Rejected(outcome) == outcome.resp = DateValidationError /\ outcome.tasks = tasks

\* C2: a create, update, schedule replacement or reschedule whose resulting
\* revision dates include one before the task's completedDate fails with
\* the validation error and leaves the stored tasks as they were.
EarlyDateRejected ==
  resp = NoResponse =>
  /\ \A u \in Users, cd \in CompletedDates, revs \in DateLists, id \in TaskIds \ DOMAIN tasks :
       EarlyDate({revs[i] : i \in 1..Len(revs)}, cd)
         => Rejected(createTask(u, cd, revs, id))
  /\ \A id \in DOMAIN tasks :
       LET u == tasks[id].user
       IN /\ \A cd \in CompletedDates \cup {NoDate}, revs \in UpdateLists :
               EarlyDate(IF revs.present
                         THEN {revs.items[i].value.scheduledDate : i \in 1..Len(revs.items)}
                         ELSE DatesOf(tasks[id].revisions),
                         IF cd = NoDate THEN tasks[id].completedDate ELSE cd)
                 => Rejected(updateTask(u, id, cd, revs))
          /\ \A revs \in ScheduleLists :
               EarlyDate({revs[i].scheduledDate : i \in 1..Len(revs)}, tasks[id].completedDate)
                 => Rejected(updateTaskSchedule(u, id, revs))
          /\ \A d \in InputDates, rid \in IdsOf(tasks[id].revisions) :
               EarlyDate({d}, tasks[id].completedDate)
                 => Rejected(RescheduleRevision(u, id, rid, d))

\* a request on a stored task with revisions was rejected for its dates
EarlyDateWasRejected ==
  /\ resp = DateValidationError
  /\ \E id \in DOMAIN tasks : Len(tasks[id].revisions) > 0

\* C3: a stored revision has completedAt set only if its status is done.
CompletedAtOnlyWhenDone ==
  \A id \in DOMAIN tasks : \A i \in 1..Len(tasks[id].revisions) :
    tasks[id].revisions[i].completedAt # NoDate => tasks[id].revisions[i].status = "done"

\* C4: the stored status of every revision is pending, done or skipped.
StoredStatusIsResting ==
  \A id \in DOMAIN tasks : \A i \in 1..Len(tasks[id].revisions) :
    tasks[id].revisions[i].status \in {"pending", "done", "skipped"}

\* C5: a postpone moves the revision to the UTC midnight that follows its
\* current scheduledDate (the start of the next UTC day), sets it pending,
\* and returns that date, whatever the clock and the prior status.
PostponeAnchored ==
  resp = NoResponse =>
  \A id \in DOMAIN tasks : \A i \in 1..Len(tasks[id].revisions) :
    LET rev == tasks[id].revisions[i]
        out == markRevisionComplete(tasks[id].user, id, rev.id, "postponed")
        new == out.tasks[id].revisions[i]
    IN /\ new.scheduledDate % Day = 0
       /\ new.scheduledDate > rev.scheduledDate
       /\ new.scheduledDate - rev.scheduledDate <= Day
       /\ new.status = "pending"
       /\ new.id = rev.id
       /\ out.resp = Response(200, "", new.scheduledDate)

\* a revision scheduled at 10:00 of day 2 was postponed, at a request made
\* on day 5, to the midnight that starts day 3
PostponedToNextMidnight ==
  /\ resp = Response(200, "", 3 * Day)
  /\ now >= 5 * Day
  /\ \E id \in DOMAIN tasks : \E i \in 1..Len(tasks[id].revisions) :
       /\ tasks[id].revisions[i].scheduledDate = 3 * Day
       /\ tasks[id].revisions[i].status = "pending"

\* C34: a postpone of a stored revision succeeds and moves its scheduledDate
\* forward, by more than nothing and by at most 24 hours; a second postpone
\* moves it forward again; the stored task still has no revision before its
\* completedDate.
PostponeOnlyForward ==
  resp = NoResponse =>
  \A id \in DOMAIN tasks : \A i \in 1..Len(tasks[id].revisions) :
    LET rev == tasks[id].revisions[i]
        out == markRevisionComplete(tasks[id].user, id, rev.id, "postponed")
        once == out.tasks[id]
        twice == postponeRevision(once, rev.id).task
        step(from, to) == to - from > 0 /\ to - from <= Day
    IN /\ out.resp.code = 200
       /\ step(rev.scheduledDate, once.revisions[i].scheduledDate)
       /\ step(once.revisions[i].scheduledDate, twice.revisions[i].scheduledDate)
       /\ RevisionsValidator(once)
       /\ RevisionsValidator(twice)

\* the only revision of a task completed at 10:00 of day 0, scheduled at
\* 10:00 of day 2, has been postponed twice, to the midnight that starts day 4
PostponedTwice ==
  /\ resp = Response(200, "", 4 * Day)
  /\ \E id \in DOMAIN tasks :
       /\ tasks[id].completedDate = 600
       /\ Len(tasks[id].revisions) = 1
       /\ tasks[id].revisions[1].scheduledDate = 4 * Day

\* C35: a status update, a postpone and a reschedule of revision r of task t
\* leave every other task, every other revision of t, the number and the
\* order of t's revisions, r's id, and t's user, completedDate and
\* isArchived as they were.
OnlyTheRevisionChanges ==
  resp = NoResponse =>
  \A id \in DOMAIN tasks : \A i \in 1..Len(tasks[id].revisions) :
    LET rid == tasks[id].revisions[i].id
        outcomes ==
          {markRevisionComplete(tasks[id].user, id, rid, st) : st \in StatusInputs}
          \cup {RescheduleRevision(tasks[id].user, id, rid, d) : d \in InputDates}
    IN \A out \in outcomes :
         /\ DOMAIN out.tasks = DOMAIN tasks
         /\ \A other \in DOMAIN tasks \ {id} : out.tasks[other] = tasks[other]
         /\ out.tasks[id].user = tasks[id].user
         /\ out.tasks[id].completedDate = tasks[id].completedDate
         /\ out.tasks[id].isArchived = tasks[id].isArchived
         /\ Len(out.tasks[id].revisions) = Len(tasks[id].revisions)
         /\ out.tasks[id].revisions[i].id = rid
         /\ \A j \in 1..Len(tasks[id].revisions) :
              j # i => out.tasks[id].revisions[j] = tasks[id].revisions[j]

\* the first revision of a default schedule has been marked done and the
\* second is as it was created
FirstOfTwoMarkedDone ==
  /\ resp = Ok(200)
  /\ \E id \in DOMAIN tasks :
       /\ Len(tasks[id].revisions) = 2
       /\ tasks[id].revisions[1].status = "done"
       /\ tasks[id].revisions[1].completedAt = now
       /\ tasks[id].revisions[2] =
            [id |-> 2, scheduledDate |-> tasks[id].completedDate + 7 * Day,
             status |-> "pending", completedAt |-> NoDate]

\* C16: a task first persisted with no explicit revisions is stored with
\* exactly two revisions, the first 3 days and the second 7 days after its
\* completedDate, both pending and neither before completedDate.
DefaultScheduleOnCreate ==
  resp = NoResponse =>
  \A u \in Creators, cd \in CompletedDates, id \in TaskIds \ DOMAIN tasks :
    LET out == createTask(u, cd, <<>>, id)
        revs == out.tasks[id].revisions
    IN /\ out.resp = Ok(201)
       /\ Len(revs) = 2
       /\ revs[1].scheduledDate = cd + 3 * Day
       /\ revs[2].scheduledDate = cd + 7 * Day
       /\ revs[1].id # revs[2].id
       /\ \A i \in 1..2 : /\ revs[i].status = "pending"
                          /\ revs[i].completedAt = NoDate
                          /\ revs[i].scheduledDate >= cd

\* a task completed on day 4 was just created with the default schedule
CreatedWithDefaultSchedule ==
  /\ resp = Ok(201)
  /\ \E id \in DOMAIN tasks :
       /\ tasks[id].completedDate = 4 * Day
       /\ Len(tasks[id].revisions) = 2
       /\ tasks[id].revisions[1].scheduledDate = 7 * Day
       /\ tasks[id].revisions[2].scheduledDate = 11 * Day

\* the revisions are scheduled on the dates of `other`, one by one
SameSchedule(revs, other) ==
  /\ Len(revs) = Len(other)
  /\ \A i \in 1..Len(revs) : revs[i].scheduledDate = other[i].scheduledDate

\* the revisions are those of `other`, by id and in order
SameIds(revs, other) ==
  /\ Len(revs) = Len(other)
  /\ \A i \in 1..Len(revs) : revs[i].id = other[i].id

\* C17: the default schedule is generated only at the first persist of a
\* task created with no revisions.  A task created with a non-empty list is
\* stored with exactly that list, and a later save stores the list it was
\* given, or the schedule the task had: it never adds or regenerates
\* revisions, also when the schedule was emptied.
DefaultsOnlyAtFirstPersist ==
  resp = NoResponse =>
  /\ \A u \in Creators, cd \in CompletedDates, revs \in DateLists \ {<<>>},
        id \in TaskIds \ DOMAIN tasks :
       LET out == createTask(u, cd, revs, id)
       IN out.resp = Ok(201) =>
            /\ Len(out.tasks[id].revisions) = Len(revs)
            /\ \A i \in 1..Len(revs) : out.tasks[id].revisions[i].scheduledDate = revs[i]
  /\ \A id \in DOMAIN tasks :
       LET u == tasks[id].user
           stored == tasks[id].revisions
       IN /\ \A cd \in CompletedDates \cup {NoDate}, revs \in UpdateLists :
               LET out == updateTask(u, id, cd, revs)
                   saved == out.tasks[id].revisions
               IN IF out.resp = Ok(200) /\ revs.present
                  THEN /\ Len(saved) = Len(revs.items)
                       /\ \A i \in 1..Len(saved) :
                            saved[i].scheduledDate = revs.items[i].value.scheduledDate
                  ELSE SameSchedule(saved, stored)
          /\ \A revs \in ScheduleLists :
               LET out == updateTaskSchedule(u, id, revs)
               IN SameSchedule(out.tasks[id].revisions,
                               IF out.resp = Ok(200) THEN revs ELSE stored)
          /\ \A rid \in RevisionIdInputs(id) :
               /\ \A st \in StatusInputs :
                    SameIds(markRevisionComplete(u, id, rid, st).tasks[id].revisions, stored)
               /\ \A d \in InputDates :
                    SameIds(RescheduleRevision(u, id, rid, d).tasks[id].revisions, stored)
          /\ \A a \in BOOLEAN : archiveTask(u, id, a).tasks[id].revisions = stored

\* a save has just stored a task with an empty schedule
SavedWithEmptySchedule ==
  /\ resp = Ok(200)
  /\ \E id \in DOMAIN tasks : Len(tasks[id].revisions) = 0

\* C18: a request to mark a revision done is applied only when the revision
\* is pending or done: on a skipped revision it changes nothing stored.
DoneOnlyFromPendingOrDone ==
  resp = NoResponse =>
  \A id \in DOMAIN tasks : \A i \in 1..Len(tasks[id].revisions) :
    tasks[id].revisions[i].status = "skipped" =>
      \A st \in {"", "done"} :
        markRevisionComplete(tasks[id].user, id, tasks[id].revisions[i].id, st).tasks = tasks

\* C19: marking a revision done, when it is pending and again when it is
\* already done, succeeds, keeps the number and the ids of the revisions,
\* changes no other revision, and leaves the revision done with completedAt
\* equal to the time of that call.
RepeatedDoneIdempotent ==
  resp = NoResponse =>
  \A id \in DOMAIN tasks : \A i \in 1..Len(tasks[id].revisions) :
    tasks[id].revisions[i].status \in {"pending", "done"} =>
      \A st \in {"", "done"} :
        LET rev == tasks[id].revisions[i]
            out == markRevisionComplete(tasks[id].user, id, rev.id, st)
            revs == out.tasks[id].revisions
        IN /\ out.resp = Ok(200)
           /\ Len(revs) = Len(tasks[id].revisions)
           /\ \A j \in 1..Len(revs) : j # i => revs[j] = tasks[id].revisions[j]
           /\ revs[i] = [rev EXCEPT !.status = "done", !.completedAt = now]

\* a revision was marked done, and the clock has moved since
MarkedDoneEarlier ==
  /\ resp = NoResponse
  /\ \E id \in DOMAIN tasks : \E i \in 1..Len(tasks[id].revisions) :
       /\ tasks[id].revisions[i].status = "done"
       /\ tasks[id].revisions[i].completedAt # NoDate
       /\ tasks[id].revisions[i].completedAt < now

\* C20: a status update, a postpone or a reschedule that names a revision id
\* the task does not have fails with not-found (404) and leaves the stored
\* tasks as they were.
AbsentRevisionNotFound ==
  resp = NoResponse =>
  \A id \in DOMAIN tasks : \A rid \in RevisionIdInputs(id) \ IdsOf(tasks[id].revisions) :
    /\ \A st \in StatusInputs :
         LET out == markRevisionComplete(tasks[id].user, id, rid, st)
         IN /\ out.resp.code = 404
            /\ out.resp.error \in {"Revision not found", "Revision not found or postpone failed"}
            /\ out.tasks = tasks
    /\ \A d \in InputDates :
         LET out == RescheduleRevision(tasks[id].user, id, rid, d)
         IN out.resp = RevisionNotFound /\ out.tasks = tasks

\* the owner of a task with two revisions named a revision it does not have
AbsentRevisionWasNamed ==
  /\ resp = RevisionNotFound
  /\ \E id \in DOMAIN tasks : Len(tasks[id].revisions) = 2

\* C21: a reschedule of a revision to a date that is not before the task's
\* completedDate succeeds and leaves the revision with that scheduledDate
\* and status pending, whatever its status was; an earlier date is refused
\* and nothing else of the task changes in either case.
RescheduleResetsToPending ==
  resp = NoResponse =>
  \A id \in DOMAIN tasks : \A i \in 1..Len(tasks[id].revisions) : \A d \in InputDates :
    LET rev == tasks[id].revisions[i]
        out == RescheduleRevision(tasks[id].user, id, rev.id, d)
    IN IF d >= tasks[id].completedDate
       THEN /\ out.resp = Ok(200)
            /\ out.tasks[id] =
                 [tasks[id] EXCEPT !.revisions[i].scheduledDate = d,
                                   !.revisions[i].status = "pending"]
       ELSE Rejected(out)

\* a revision marked done after the clock moved was rescheduled: it is
\* pending on the new date and still carries the time it was done
DoneRevisionRescheduled ==
  \E id \in DOMAIN tasks : \E i \in 1..Len(tasks[id].revisions) :
    /\ tasks[id].revisions[i].status = "pending"
    /\ tasks[id].revisions[i].completedAt = NowStart + 1
    /\ tasks[id].revisions[i].scheduledDate = 2 * Day + 600

\* a task id that no stored task has
AbsentId == "t0"

\* C23: every task operation that names a task id (get, update, schedule
\* update, status update, postpone, reschedule, archive, delete) answers a
\* user who names another user's task exactly as it answers a request for
\* an id no task has, with the not-found response, and stores nothing.
OtherUsersTaskNotFound ==
  resp = NoResponse =>
  \A id \in DOMAIN tasks : \A u \in Users \ {tasks[id].user} :
    LET Same(other, absent) ==
          other = absent /\ other = Outcome(tasks, TaskNotFound)
    IN /\ Same(getTask(u, id), getTask(u, AbsentId))
       /\ \A cd \in CompletedDates \cup {NoDate}, revs \in UpdateLists :
            Same(updateTask(u, id, cd, revs), updateTask(u, AbsentId, cd, revs))
       /\ \A revs \in ScheduleLists :
            Same(updateTaskSchedule(u, id, revs), updateTaskSchedule(u, AbsentId, revs))
       /\ \A rid \in RevisionIdInputs(id) :
            /\ \A st \in StatusInputs :
                 Same(markRevisionComplete(u, id, rid, st),
                      markRevisionComplete(u, AbsentId, rid, st))
            /\ \A d \in InputDates :
                 Same(RescheduleRevision(u, id, rid, d), RescheduleRevision(u, AbsentId, rid, d))
       /\ \A a \in BOOLEAN : Same(archiveTask(u, id, a), archiveTask(u, AbsentId, a))
       /\ Same(deleteTask(u, id), deleteTask(u, AbsentId))

\* a user who is not the owner has just named a stored task
NamedAnotherUsersTask ==
  /\ resp = TaskNotFound
  /\ \E id \in DOMAIN tasks : \E u \in Users : tasks[id].user # u

RevisionIds(revs) == [i \in 1..Len(revs) |-> revs[i].id]

\* C24 as stated: no task operation other than delete-task removes or
\* replaces a stored revision: after every other operation each revision of
\* the task is still in its list under its id.
RevisionsKeptUntilTaskDeleted ==
  resp = NoResponse =>
  \A id \in DOMAIN tasks :
    LET u == tasks[id].user
        Kept(out) == IdsOf(tasks[id].revisions) \subseteq IdsOf(out.tasks[id].revisions)
    IN /\ Kept(getTask(u, id))
       /\ \A cd \in CompletedDates \cup {NoDate}, revs \in UpdateLists :
            Kept(updateTask(u, id, cd, revs))
       /\ \A revs \in ScheduleLists : Kept(updateTaskSchedule(u, id, revs))
       /\ \A rid \in RevisionIdInputs(id) :
            /\ \A st \in StatusInputs : Kept(markRevisionComplete(u, id, rid, st))
            /\ \A d \in InputDates : Kept(RescheduleRevision(u, id, rid, d))
       /\ \A a \in BOOLEAN : Kept(archiveTask(u, id, a))

\* C24, amended: a revision stays in its task's list, under its id and at
\* its place, through every get, update without a revisions list, status
\* update, postpone, reschedule and archive.  It is removed when the task is
\* deleted and when the schedule is replaced, by an update that carries a
\* revisions list or by a schedule update.
RevisionsKeptUnlessScheduleReplaced ==
  resp = NoResponse =>
  \A id \in DOMAIN tasks :
    LET u == tasks[id].user
        Kept(out) == RevisionIds(out.tasks[id].revisions) = RevisionIds(tasks[id].revisions)
    IN /\ Kept(getTask(u, id))
       /\ \A cd \in CompletedDates \cup {NoDate} :
            Kept(updateTask(u, id, cd, [present |-> FALSE, items |-> <<>>]))
       /\ \A rid \in RevisionIdInputs(id) :
            /\ \A st \in StatusInputs : Kept(markRevisionComplete(u, id, rid, st))
            /\ \A d \in InputDates : Kept(RescheduleRevision(u, id, rid, d))
       /\ \A a \in BOOLEAN : Kept(archiveTask(u, id, a))
       /\ id \notin DOMAIN deleteTask(u, id).tasks

\* the two revisions a task was created with are still its revisions after
\* one was marked done, the other skipped, and the task archived
RevisionsKeptThroughOperations ==
  \E id \in DOMAIN tasks :
    /\ tasks[id].isArchived
    /\ RevisionIds(tasks[id].revisions) = <<1, 2>>
    /\ tasks[id].revisions[1].status = "done"
    /\ tasks[id].revisions[2].status = "skipped"

\* ---------------------------------------------------------------------
\* utils/timezoneUtils.js
\* Instants are whole minutes; a Date's millisecond part is not modelled, so
\* 23:59:59.999 of a day is the day's last minute, Day - 1.

\* the zones of the model, three rows of SUPPORTED_TIMEZONES
Zones == {"UTC", "Asia/Kolkata", "America/New_York"}

\* utcOffset of a zone in minutes (America/New_York in summer, -04:00)
Offset(zone) ==
  CASE zone = "Asia/Kolkata" -> 330
    [] zone = "UTC" -> 0
    [] zone = "America/New_York" -> -240

\* date.toLocaleString('en-US', { timeZone }): the wall-clock reading of the
\* instant in the zone, as minutes on the zone's local time line
toLocaleString(date, timezone) == date + Offset(timezone)

\* new Date(string) of a reading without a zone: read as host local time
ParseDate(reading) == reading - Offset(host)

\* date.setHours(h, m, s, ms): the given time of day on the date's host-local day
setHours(date, minuteOfDay) ==
  (((date + Offset(host)) \div Day) * Day + minuteOfDay) - Offset(host)

\* date.getHours(): the host-local hour of day
getHours(date) == ((date + Offset(host)) % Day) \div Hour

getCurrentTimeInTimezone(timezone) == ParseDate(toLocaleString(now, timezone))

getDayBoundsInTimezone(date, timezone) ==
  LET userDate == ParseDate(toLocaleString(date, timezone))
  IN [startOfDay |-> setHours(userDate, 0), endOfDay |-> setHours(userDate, Day - 1)]

\* a check that also passes in the hours after the target hour
isTargetHourOrLater(targetHour, timezone) ==
  getHours(getCurrentTimeInTimezone(timezone)) >= targetHour

isTargetHourInTimezone(targetHour, timezone) ==
  getHours(getCurrentTimeInTimezone(timezone)) = targetHour

\* ---------------------------------------------------------------------
\* services/cronService.js: getTodaysRevisions

\* Math.ceil((revisionDate - completedDate) / one day)
DaysDiff(revisionDate, completedDate) ==
  LET d == revisionDate - completedDate
  IN IF d >= 0 THEN (d + Day - 1) \div Day ELSE -((-d) \div Day)

RevisionDay(daysDiff) ==
  IF daysDiff <= 3 THEN 1
  ELSE IF daysDiff <= 7 THEN 2
  ELSE IF daysDiff <= 14 THEN 3
  ELSE IF daysDiff <= 30 THEN 4
  ELSE 5

\* $match user and isArchived, $unwind, $match date range and status, map
TasksWithRevisions(userId, startOfDay, endOfDay) ==
  LET \* the order in which the aggregation reads the Task collection
      TaskOrder == <<"t1", "t2">>
      row(id, rev) ==
        [taskId |-> id, revisionId |-> rev.id,
         revisionDay |-> RevisionDay(DaysDiff(rev.scheduledDate, tasks[id].completedDate)),
         scheduledDate |-> rev.scheduledDate,
         isFirstRevision |->
           RevisionDay(DaysDiff(rev.scheduledDate, tasks[id].completedDate)) = 1]
      RECURSIVE unwind(_, _)
      unwind(id, i) ==
        IF i > Len(tasks[id].revisions) THEN <<>>
        ELSE LET rev == tasks[id].revisions[i]
             IN (IF /\ rev.scheduledDate >= startOfDay
                    /\ rev.scheduledDate <= endOfDay
                    /\ rev.status = "pending"
                 THEN <<row(id, rev)>> ELSE <<>>) \o unwind(id, i + 1)
      RECURSIVE scan(_)
      scan(k) ==
        IF k > Len(TaskOrder) THEN <<>>
        ELSE LET id == TaskOrder[k]
             IN (IF /\ id \in DOMAIN tasks
                    /\ tasks[id].user = userId
                    /\ ~tasks[id].isArchived
                 THEN unwind(id, 1) ELSE <<>>) \o scan(k + 1)
  IN scan(1)

\* the (task, revision) pairs of a resolved due-set
PairsOf(revisions) ==
  {<<revisions[k].taskId, revisions[k].revisionId>> : k \in 1..Len(revisions)}

\* aggregateFails: Task.aggregate rejects; the catch block returns []
getTodaysRevisions(userId, timezone, aggregateFails) ==
  LET bounds == getDayBoundsInTimezone(now, timezone)
  IN IF aggregateFails THEN <<>>
     ELSE TasksWithRevisions(userId, bounds.startOfDay, bounds.endOfDay)

\* ---------------------------------------------------------------------
\* The day bounds and the due-set, called on a server in any of the zones
\* for stored tasks around the day boundaries of the zones.

TzNows == {5 * Day + 6 * Hour, 5 * Day + 20 * Hour}
TzDates == {5 * Day - 331, 5 * Day - 210, 5 * Day + 239, 5 * Day + 390, 6 * Day - 150}
TzStatuses == {"pending", "done"}

TzTask(u, d, st, archived) ==
  [user |-> u, completedDate |-> 2 * Day, isArchived |-> archived,
   revisions |-> <<[id |-> 1, scheduledDate |-> d, status |-> st,
                    completedAt |-> IF st = "done" THEN d ELSE NoDate]>>]

DayBoundsStep ==
  /\ \E timezone \in Zones, date \in TzNows \cup TzDates :
       returned' = [fn |-> "getDayBoundsInTimezone", userId |-> "", timezone |-> timezone,
                    date |-> date, value |-> getDayBoundsInTimezone(date, timezone)]
  /\ UNCHANGED <<tasks, now, resp, reqs, host, users, run, prev, outbox, proc, env>>

TodaysRevisionsStep ==
  /\ \E userId \in Users, timezone \in Zones :
       returned' = [fn |-> "getTodaysRevisions", userId |-> userId, timezone |-> timezone,
                    date |-> now, value |-> getTodaysRevisions(userId, timezone, FALSE)]
  /\ UNCHANGED <<tasks, now, resp, reqs, host, users, run, prev, outbox, proc, env>>

\* PATCH /api/tasks/:id/revisions/:revisionId/complete with status
\* 'postponed', for a revision that is not yet two days past the days the
\* due-sets are resolved on
PostponeStep ==
  /\ \E userId \in Users, id \in DOMAIN tasks :
       \E revisionId \in IdsOf(tasks[id].revisions) :
         LET outcome == markRevisionComplete(userId, id, revisionId, "postponed")
         IN /\ \A i \in 1..Len(tasks[id].revisions) :
                 tasks[id].revisions[i].scheduledDate < 7 * Day
            /\ tasks' = outcome.tasks
            /\ returned' = [fn |-> "markRevisionComplete", userId |-> userId,
                            timezone |-> "", date |-> now,
                            value |-> <<[taskId |-> id, revisionId |-> revisionId,
                                         code |-> outcome.resp.code]>>]
  /\ UNCHANGED <<now, resp, reqs, host, users, run, prev, outbox, proc, env>>

InitTz ==
  /\ tasks \in
       {[id \in {"t1", "t2"} |->
           IF id = "t1" THEN TzTask("u1", c[1], c[2], FALSE) ELSE TzTask(c[3], c[4], "pending", c[5])] :
          c \in TzDates \X TzStatuses \X Users \X TzDates \X BOOLEAN}
  /\ now \in TzNows
  /\ host \in Zones
  /\ resp = NoResponse
  /\ reqs = NoRequests
  /\ returned = NoOutput
  /\ users = <<>>
  /\ run = IdleRun
  /\ prev = EmptyStore
  /\ outbox = {}
  /\ proc = ProcessUp
  /\ env = "development"

SpecTz == InitTz /\ [][DayBoundsStep \/ TodaysRevisionsStep \/ PostponeStep]_vars

\* local 00:00 of the local calendar date that contains the instant
LocalMidnight(date, timezone) ==
  ((date + Offset(timezone)) \div Day) * Day - Offset(timezone)

\* C8: getDayBoundsInTimezone returns the instants of local 00:00:00.000 and
\* local 23:59:59.999 of the local date containing the instant, whatever the
\* zone of the server (for Asia/Kolkata on the local date of day 5 that is
\* 330 minutes before day 5 up to one minute less than a day later).
DayBoundsAreLocal ==
  returned.fn = "getDayBoundsInTimezone" =>
    /\ returned.value.startOfDay = LocalMidnight(returned.date, returned.timezone)
    /\ returned.value.endOfDay = LocalMidnight(returned.date, returned.timezone) + Day - 1

\* the (task, revision) pairs that are due for the user on the local day of now
DuePairs(userId, timezone) ==
  LET start == LocalMidnight(now, timezone)
      due(id) == {i \in 1..Len(tasks[id].revisions) :
                    /\ tasks[id].revisions[i].status = "pending"
                    /\ tasks[id].revisions[i].scheduledDate >= start
                    /\ tasks[id].revisions[i].scheduledDate <= start + Day - 1}
  IN UNION {{<<id, tasks[id].revisions[i].id>> : i \in due(id)} :
              id \in {t \in DOMAIN tasks : tasks[t].user = userId /\ ~tasks[t].isArchived}}

\* C7: the due-set of a user holds exactly one record for each pending
\* revision of the user's non-archived tasks whose scheduledDate lies within
\* the local day of now in the zone, and nothing else, none of them twice.
DueTodayExact ==
  returned.fn = "getTodaysRevisions" =>
    /\ {<<returned.value[k].taskId, returned.value[k].revisionId>> :
          k \in 1..Len(returned.value)} = DuePairs(returned.userId, returned.timezone)
    /\ Len(returned.value) = Cardinality(DuePairs(returned.userId, returned.timezone))

\* the whole days that have elapsed from one instant to a later one
ElapsedWholeDays(from, to) == (to - from) \div Day

\* C22: the ordinal of every record of the due-set is 1 when at most 3 whole
\* days have elapsed from the task's completedDate to the revision's
\* scheduledDate, 2 when at most 7, 3 when at most 14, 4 when at most 30,
\* and 5 otherwise; isFirstRevision is true exactly when the ordinal is 1.
OrdinalByElapsedWholeDays ==
  returned.fn = "getTodaysRevisions" =>
    \A k \in 1..Len(returned.value) :
      LET rec == returned.value[k]
          d == ElapsedWholeDays(tasks[rec.taskId].completedDate, rec.scheduledDate)
          ordinal == IF d <= 3 THEN 1 ELSE IF d <= 7 THEN 2
                     ELSE IF d <= 14 THEN 3 ELSE IF d <= 30 THEN 4 ELSE 5
      IN /\ rec.revisionDay = ordinal
         /\ rec.isFirstRevision = (ordinal = 1)

\* C31: when a revision that is in a user's due-set for the local day of now
\* is postponed, then afterwards it is not in the due-set for that day and
\* it is in the due-set resolved a day later, in every zone of the user.
PostponedMovesToNextLocalDay ==
  [][\A userId \in Users, timezone \in Zones :
       LET today == getDayBoundsInTimezone(now, timezone)
           nextDay == getDayBoundsInTimezone(now + Day, timezone)
           due(bounds) ==
             PairsOf(TasksWithRevisions(userId, bounds.startOfDay, bounds.endOfDay))
       IN \A pair \in due(today) :
            (/\ returned'.fn = "markRevisionComplete"
             /\ returned'.userId = userId
             /\ returned'.value[1].code = 200
             /\ pair = <<returned'.value[1].taskId, returned'.value[1].revisionId>>)
              => /\ pair \notin due(today)'
                 /\ pair \in due(nextDay)'
    ]_vars

\* ---------------------------------------------------------------------
\* services/cronService.js: the daily reminder job, fired by
\* cron.schedule('0 * * * *', sendDailyReminders, { timezone: 'Asia/Kolkata' })
\* at every full hour of Asia/Kolkata.

CronUser(id, timezone, isVerified, emailNotifications) ==
  [id |-> id, timezone |-> timezone, isVerified |-> isVerified,
   emailNotifications |-> emailNotifications]

\* a stored timezone that passes the schema's pattern and names no zone
InvalidZone == "Mars/Phobos"

CronUsers ==
  {<<CronUser("u1", c[1], TRUE, c[2]), CronUser("u2", c[3], c[4], TRUE)>> :
     c \in {"Asia/Kolkata", "UTC"} \X BOOLEAN
           \X {"Asia/Kolkata", "UTC", "", InvalidZone} \X BOOLEAN}

CronStores ==
  LET CronDates == {5 * Day + 400, 9 * Day}
  IN {[id \in {"t1", "t2"} |->
         IF id = "t1" THEN TzTask("u1", c[1], "pending", FALSE)
         ELSE TzTask(c[3], c[2], "pending", FALSE)] : c \in CronDates \X CronDates \X Users}

\* a query that leaves out the isVerified condition
EligibleUsersUnverified ==
  LET RECURSIVE find(_)
      find(k) == IF k > Len(users) THEN <<>>
                 ELSE (IF users[k].emailNotifications THEN <<users[k]>> ELSE <<>>)
                      \o find(k + 1)
  IN find(1)

\* User.find({ isVerified: true, 'settings.emailNotifications': true })
EligibleUsers ==
  LET RECURSIVE find(_)
      find(k) == IF k > Len(users) THEN <<>>
                 ELSE (IF users[k].isVerified /\ users[k].emailNotifications
                       THEN <<users[k]>> ELSE <<>>) \o find(k + 1)
  IN find(1)

\* the cron expression matches: sendDailyReminders starts. findFails: User.find
\* rejects and the outer catch block ends the run
StartRun ==
  /\ proc.phase = "up"
  /\ run.pc # "running"
  /\ run.n < MaxCronTicks
  /\ now' = now + Hour
  /\ prev' = run.log
  /\ \E findFails \in BOOLEAN :
       run' = [pc |-> IF findFails THEN "aborted" ELSE "running",
               n |-> run.n + 1,
               queue |-> IF findFails THEN <<>> ELSE EligibleUsers,
               remindersSent |-> 0, errors |-> 0, log |-> EmptyStore, failed |-> {},
               calls |-> <<>>]
  /\ UNCHANGED <<tasks, resp, reqs, host, returned, users, outbox, proc, env>>

\* the log lines of one user: the outcome, the due-set that was resolved, the
\* steps that ran, in order, and the step that failed ("" when none did)
Logged(user, outcome, due, steps, failedStep) ==
  [x \in (DOMAIN run.log) \cup {user.id} |->
     IF x = user.id
     THEN [outcome |-> outcome, due |-> due, steps |-> steps, failedStep |-> failedStep]
     ELSE run.log[x]]

\* user.timezone || 'Asia/Kolkata'
UserTimezone(user) == IF user.timezone = "" THEN "Asia/Kolkata" ELSE user.timezone

\* toLocaleString('en-US', { timeZone }) throws a RangeError for a timezone
\* that names no zone
ValidTimezone(timezone) == timezone \in Zones

\* a check of the due-set that never finds it empty
NothingDueNever(todaysRevisions) == FALSE

\* todaysRevisions.length === 0
NothingDue(todaysRevisions) == Len(todaysRevisions) = 0

\* a sender that writes one mail for each revision
sendOnePerRevision(userId, revisions) ==
  [k \in 1..Len(revisions) |-> [to |-> userId, revisions |-> PairsOf(<<revisions[k]>>)]]

\* emailService.js sendDailyRevisionReminder: the mails it hands to the
\* transporter, one mail that lists all the revisions
sendDailyRevisionReminder(userId, revisions) ==
  <<[to |-> userId, revisions |-> PairsOf(revisions)]>>

\* one iteration of `for (const user of users)`. aggregateFails: Task.aggregate
\* rejects; sendFails: sendDailyRevisionReminder throws
ProcessUser ==
  /\ proc.phase # "exited"
  /\ run.pc = "running"
  /\ run.queue # <<>>
  /\ \E aggregateFails \in BOOLEAN, sendFails \in BOOLEAN :
       LET user == Head(run.queue)
           userTimezone == UserTimezone(user)
           todaysRevisions == getTodaysRevisions(user.id, userTimezone, aggregateFails)
           mails == sendDailyRevisionReminder(user.id, todaysRevisions)
           rest == [run EXCEPT !.queue = Tail(run.queue)]
       IN IF ~ValidTimezone(userTimezone)
          THEN /\ run' = [rest EXCEPT !.log = Logged(user, "errored", {}, <<"hour">>, "hour"),
                                      !.errors = @ + 1,
                                      !.failed = @ \cup {user.id}]
               /\ outbox' = outbox
          ELSE IF ~isTargetHourInTimezone(6, userTimezone)
          THEN /\ run' = [rest EXCEPT !.log = Logged(user, "not-target-hour", {}, <<"hour">>, "")]
               /\ outbox' = outbox
          ELSE IF NothingDue(todaysRevisions)
          THEN /\ run' = [rest EXCEPT
                            !.log = Logged(user, "no-revisions", {}, <<"hour", "due-set">>,
                                           IF aggregateFails THEN "due-set" ELSE ""),
                            !.failed = IF aggregateFails THEN @ \cup {user.id} ELSE @]
               /\ outbox' = outbox
          ELSE IF sendFails
          THEN /\ run' = [rest EXCEPT
                            !.log = Logged(user, "errored", PairsOf(todaysRevisions),
                                           <<"hour", "due-set", "dispatch">>, "dispatch"),
                            !.errors = @ + 1,
                            !.failed = @ \cup {user.id},
                            !.calls = @ \o mails]
               /\ outbox' = outbox
          ELSE /\ run' = [rest EXCEPT
                            !.log = Logged(user, "sent", PairsOf(todaysRevisions),
                                           <<"hour", "due-set", "dispatch">>, ""),
                            !.remindersSent = @ + 1,
                            !.calls = @ \o mails]
               /\ outbox' = outbox \cup {[to |-> mails[k].to, at |-> now,
                                          revisions |-> mails[k].revisions] :
                                           k \in 1..Len(mails)}
  /\ UNCHANGED <<tasks, now, resp, reqs, host, returned, users, prev, proc, env>>

\* the loop is over: 'Daily reminder job completed. Sent: ..., Errors: ...'
FinishRun ==
  /\ proc.phase # "exited"
  /\ run.pc = "running"
  /\ run.queue = <<>>
  /\ run' = [run EXCEPT !.pc = "completed"]
  /\ UNCHANGED <<tasks, now, resp, reqs, host, returned, users, prev, outbox, proc, env>>

InitCron ==
  /\ tasks \in CronStores
  \* the instant before the first firing: one hour before 06:00 in Asia/Kolkata
  \* and one hour before the firing at which it is 06:30 in UTC
  /\ now \in {5 * Day + 30 - Hour, 5 * Day + 390 - Hour}
  /\ host \in Zones
  /\ users \in CronUsers
  /\ resp = NoResponse
  /\ reqs = NoRequests
  /\ returned = NoOutput
  /\ run = IdleRun
  /\ prev = EmptyStore
  /\ outbox = {}
  /\ proc = ProcessUp
  /\ env = "development"

SpecCron == InitCron /\ [][StartRun \/ ProcessUser \/ FinishRun]_vars

\* ---------------------------------------------------------------------
\* server.js: the process receives SIGTERM or SIGINT while the jobs are
\* scheduled

\* gracefulShutdown up to server.close(callback): stopScheduledJobs stops
\* every cron task, so no run starts after it; a run in progress is not told
gracefulShutdown ==
  /\ proc.phase = "up"
  /\ proc' = [phase |-> "stopping", inRun |-> run.pc = "running",
              logged |-> DOMAIN run.log]
  /\ UNCHANGED <<tasks, now, resp, reqs, host, returned, users, run, prev, outbox, env>>

\* the callback of server.close: the HTTP server has closed, the database
\* connection is closed, process.exit(0)
ProcessExit ==
  /\ proc.phase = "stopping"
  /\ proc' = [proc EXCEPT !.phase = "exited"]
  /\ UNCHANGED <<tasks, now, resp, reqs, host, returned, users, run, prev, outbox, env>>

SpecStop ==
  InitCron /\ [][StartRun \/ ProcessUser \/ FinishRun \/ gracefulShutdown \/ ProcessExit]_vars

\* C25: after a shutdown signal that arrives while a reminder run is in
\* progress, the run starts to process no further user: the users it has
\* processed are the users it had processed when the signal arrived.
NoUserStartedAfterShutdown ==
  (proc.phase # "up" /\ proc.inRun) => DOMAIN run.log = proc.logged

\* the pairs of the user's revisions that are stored with status pending
PendingPairs(userId) ==
  UNION {{<<id, tasks[id].revisions[i].id>> :
            i \in {j \in 1..Len(tasks[id].revisions) : tasks[id].revisions[j].status = "pending"}} :
           id \in {t \in DOMAIN tasks : tasks[t].user = userId}}

\* the user's dispatch failed in the run before this one, and this run has
\* processed the user
FailedLastTick(userId) ==
  /\ userId \in DOMAIN prev
  /\ prev[userId].failedStep = "dispatch"
  /\ userId \in DOMAIN run.log

FailuresIsolatedAndCounted ==
  run.pc = "completed" =>
    /\ DOMAIN run.log = {EligibleUsers[k].id : k \in 1..Len(EligibleUsers)}
    /\ \A k \in 1..Len(EligibleUsers) :
         LET user == EligibleUsers[k]
             userTimezone == UserTimezone(user)
             due == PairsOf(getTodaysRevisions(user.id, userTimezone, FALSE))
         IN (/\ user.id \notin run.failed
             /\ isTargetHourInTimezone(6, userTimezone)
             /\ due # {})
            => [to |-> user.id, at |-> now, revisions |-> due] \in outbox
    /\ run.errors = Cardinality(run.failed)

\* ---------------------------------------------------------------------
\* properties of one run of the daily reminder job

\* the eligible user with the id
UserOf(userId) ==
  CHOOSE user \in {EligibleUsers[k] : k \in 1..Len(EligibleUsers)} : user.id = userId

\* the hour of the day that the wall clock of the zone shows now
LocalHour(timezone) == ((now + Offset(timezone)) % Day) \div Hour

\* the run has processed the user, whose local hour is 6
ProcessedAtTargetHour(userId) ==
  /\ userId \in DOMAIN run.log
  /\ UserTimezone(UserOf(userId)) \in Zones
  /\ LocalHour(UserTimezone(UserOf(userId))) = 6

\* the due-set the resolver returns for the user when the query succeeds
ResolvedDueSet(userId) ==
  PairsOf(getTodaysRevisions(userId, UserTimezone(UserOf(userId)), FALSE))

\* the calls of sendDailyRevisionReminder for the user in this run
CallsTo(userId) == {k \in 1..Len(run.calls) : run.calls[k].to = userId}

\* C11: a user processed at local hour 6 whose due-set was resolved and is
\* not empty gets exactly one notification in the run, and it lists every
\* revision of the due-set.
OneNotificationWithWholeDueSet ==
  \A userId \in DOMAIN run.log :
    (/\ ProcessedAtTargetHour(userId)
     /\ run.log[userId].failedStep # "due-set"
     /\ ResolvedDueSet(userId) # {})
    => /\ Cardinality(CallsTo(userId)) = 1
       /\ \A k \in CallsTo(userId) : run.calls[k].revisions = ResolvedDueSet(userId)
       /\ {mail \in outbox : mail.to = userId /\ mail.at = now}
            \subseteq {[to |-> userId, at |-> now, revisions |-> ResolvedDueSet(userId)]}
       /\ run.log[userId].failedStep = ""
            => [to |-> userId, at |-> now, revisions |-> ResolvedDueSet(userId)] \in outbox

\* a completed run sent a user one notification with two revisions
TwoRevisionsInOneNotification ==
  /\ run.pc = "completed"
  /\ \E userId \in DOMAIN run.log :
       /\ run.log[userId].outcome = "sent"
       /\ Cardinality(ResolvedDueSet(userId)) = 2
       /\ Cardinality(CallsTo(userId)) = 1

\* the order of the steps of one user's processing
StepOrder == <<"hour", "due-set", "dispatch">>

\* C12: a notification goes to a user only if the user is verified, has
\* email notifications enabled, is at local hour 6 and has a non-empty
\* due-set; the steps of a user's processing run in the order hour check,
\* due-set resolution, dispatch.
NotifiedOnlyWhenEligibleAndDue ==
  /\ \A k \in 1..Len(run.calls) :
       \E i \in 1..Len(users) :
         /\ users[i].id = run.calls[k].to
         /\ users[i].isVerified
         /\ users[i].emailNotifications
         /\ UserTimezone(users[i]) \in Zones
         /\ LocalHour(UserTimezone(users[i])) = 6
         /\ run.calls[k].revisions # {}
         /\ run.calls[k].revisions =
              PairsOf(getTodaysRevisions(users[i].id, UserTimezone(users[i]), FALSE))
  /\ \A mail \in outbox :
       mail.at = now => \E k \in 1..Len(run.calls) :
                          run.calls[k].to = mail.to /\ run.calls[k].revisions = mail.revisions
  /\ \A userId \in DOMAIN run.log :
       /\ run.log[userId].steps = SubSeq(StepOrder, 1, Len(run.log[userId].steps))
       /\ (CallsTo(userId) # {}) = (Len(run.log[userId].steps) = 3)

\* a completed run notified a user and left out a user who is not verified
NotifiedWhileOtherNotVerified ==
  /\ run.pc = "completed"
  /\ Len(run.calls) > 0
  /\ \E i \in 1..Len(users) : ~users[i].isVerified /\ users[i].id \notin DOMAIN run.log

\* C13: a user processed at local hour 6 with an empty due-set gets no
\* notification in the run and the outcome skipped; the error count is the
\* number of users with the outcome errored, so it does not count that user.
EmptyDueSetSkipped ==
  /\ \A userId \in DOMAIN run.log :
       (ProcessedAtTargetHour(userId) /\ ResolvedDueSet(userId) = {})
       => /\ CallsTo(userId) = {}
          /\ \A mail \in outbox : mail.to = userId => mail.at # now
          /\ run.log[userId].outcome = "no-revisions"
  /\ run.errors =
       Cardinality({userId \in DOMAIN run.log : run.log[userId].outcome = "errored"})

\* a completed run skipped a user at local hour 6 who had nothing due while
\* it counted an error for another user
SkippedBesideAnError ==
  /\ run.pc = "completed"
  /\ run.errors = 1
  /\ \E userId \in DOMAIN run.log :
       /\ ProcessedAtTargetHour(userId)
       /\ ResolvedDueSet(userId) = {}
       /\ run.log[userId].failedStep = ""

\* C14: every user a run has processed has exactly one outcome among sent,
\* skipped and errored, and a user whose due-set resolution failed has the
\* outcome errored and is counted in the run's error count.
ResolverFailureIsErrored ==
  /\ \A userId \in DOMAIN run.log :
       /\ run.log[userId].outcome \in {"sent", "not-target-hour", "no-revisions", "errored"}
       /\ run.log[userId].failedStep = "due-set" => run.log[userId].outcome = "errored"
  /\ run.errors = Cardinality({userId \in DOMAIN run.log : run.log[userId].failedStep # ""})

\* C15: a user whose stored timezone names no zone is processed with the
\* default zone Asia/Kolkata and is not failed for it, and the run goes on to
\* the users after it.
InvalidTimezoneFallsBack ==
  /\ \A userId \in DOMAIN run.log :
       UserOf(userId).timezone = InvalidZone =>
         /\ run.log[userId].failedStep # "hour"
         /\ (run.log[userId].outcome = "not-target-hour") = (LocalHour("Asia/Kolkata") # 6)
         /\ run.log[userId].due \subseteq
              PairsOf(getTodaysRevisions(userId, "Asia/Kolkata", FALSE))
  /\ run.pc = "completed" =>
       DOMAIN run.log = {EligibleUsers[k].id : k \in 1..Len(EligibleUsers)}

\* ---------------------------------------------------------------------
\* The runs of sendDailyReminders on the clock.  The cron expression
\* '0 * * * *' in Asia/Kolkata matches at minute 30 of every UTC hour; each
\* match starts a run, whether or not an earlier run is still in progress.
\* A run awaits the database, the mail transport and a timer in every
\* iteration, so time passes between its iterations.  reqs holds the runs.

\* the scheduler fires at this instant: a run starts in a free slot
CronFires ==
  /\ now % Hour = 30
  /\ \A r \in ReqIds : reqs[r].pc # "idle" => reqs[r].startedAt # now
  /\ \E r \in ReqIds :
       /\ reqs[r].pc # "running"
       \* of two free slots the first is taken
       /\ \A other \in ReqIds : (other # r /\ reqs[other].pc # "running") => other = "b"
       /\ \E findFails \in BOOLEAN :
            reqs' = [reqs EXCEPT ![r] =
                       [pc |-> IF findFails \/ EligibleUsers = <<>>
                               THEN "completed" ELSE "running",
                        queue |-> IF findFails THEN <<>> ELSE EligibleUsers,
                        startedAt |-> now]]
  /\ UNCHANGED <<tasks, now, resp, host, returned, users, run, prev, outbox, proc, env>>

\* half an hour passes while the runs in progress await
RunAwaits ==
  /\ now % Hour = 30 => \E r \in ReqIds : reqs[r].pc # "idle" /\ reqs[r].startedAt = now
  \* the clock runs for MaxCronTicks hours from the first firing (the two
  \* first firings of InitCron are six hours apart)
  /\ (now - (5 * Day - 30)) % (6 * Hour) < MaxCronTicks * Hour
  /\ now' = now + 30
  /\ UNCHANGED <<tasks, resp, reqs, host, returned, users, run, prev, outbox, proc, env>>

\* one iteration of `for (const user of users)` of a run in progress
RemindUser ==
  /\ \E r \in ReqIds, aggregateFails \in BOOLEAN, sendFails \in BOOLEAN :
       LET user == Head(reqs[r].queue)
           userTimezone == UserTimezone(user)
           todaysRevisions == getTodaysRevisions(user.id, userTimezone, aggregateFails)
           mails == sendDailyRevisionReminder(user.id, todaysRevisions)
       IN /\ reqs[r].pc = "running"
          /\ reqs' = [reqs EXCEPT ![r].queue = Tail(@),
                                  ![r].pc = IF Len(reqs[r].queue) = 1
                                            THEN "completed" ELSE "running"]
          /\ outbox' =
               IF /\ ValidTimezone(userTimezone)
                  /\ isTargetHourInTimezone(6, userTimezone)
                  /\ ~NothingDue(todaysRevisions)
                  /\ ~sendFails
               THEN outbox \cup {[to |-> mails[k].to, at |-> now,
                                   revisions |-> mails[k].revisions] : k \in 1..Len(mails)}
               ELSE outbox
  /\ UNCHANGED <<tasks, now, resp, host, returned, users, run, prev, proc, env>>

SpecTicks == InitCron /\ [][CronFires \/ RunAwaits \/ RemindUser]_vars

\* C33: no user is sent two daily reminders on one local calendar day of the
\* user's zone, over the hourly ticks and with runs that overlap.
OneReminderPerLocalDay ==
  \A m1, m2 \in outbox :
    (/\ m1.to = m2.to
     /\ (m1.at + Offset(UserTimezone(UserOf(m1.to)))) \div Day
          = (m2.at + Offset(UserTimezone(UserOf(m1.to)))) \div Day)
      => m1.at = m2.at

\* ---------------------------------------------------------------------
\* controllers/calendarController.js: the calendar day view, the upcoming
\* and the overdue revisions of a user

\* $match user and isArchived, $unwind, $project: the rows of the revisions
\* of the user's tasks that are not archived
CalendarRows(userId) ==
  {[taskId |-> id, revisionId |-> tasks[id].revisions[i].id,
    scheduledDate |-> tasks[id].revisions[i].scheduledDate,
    status |-> tasks[id].revisions[i].status] :
     <<id, i>> \in {p \in (DOMAIN tasks) \X (1..2) :
                      /\ p[2] <= Len(tasks[p[1]].revisions)
                      /\ tasks[p[1]].user = userId
                      /\ ~tasks[p[1]].isArchived}}

\* $sort { 'revision.scheduledDate': 1 }: the orders the sort can produce
\* (rows with equal dates come in any order)
SortByScheduledDate(rows) ==
  {s \in [1..Cardinality(rows) -> rows] :
     /\ \A i, j \in 1..Cardinality(rows) : i # j => s[i] # s[j]
     /\ \A i, j \in 1..Cardinality(rows) : i < j => s[i].scheduledDate <= s[j].scheduledDate}

\* $limit
Limit(s, limit) == SubSeq(s, 1, IF limit < Len(s) THEN limit ELSE Len(s))

\* an overdue query whose date filter is $lte
getOverdueRevisionsUpToNow(userId, limit) ==
  LET matches(rev) == rev.scheduledDate <= now /\ rev.status = "pending"
  IN {Limit(s, limit) : s \in SortByScheduledDate({row \in CalendarRows(userId) : matches(row)})}

\* the responses getOverdueRevisions can send (data.overdue)
getOverdueRevisions(userId, limit) ==
  LET matches(rev) == rev.scheduledDate < now /\ rev.status = "pending"
  IN {Limit(s, limit) : s \in SortByScheduledDate({row \in CalendarRows(userId) : matches(row)})}

\* the responses getUpcomingRevisions can send (data.upcoming); futureDate
\* is `days` calendar days of the host after now
getUpcomingRevisions(userId, days, limit) ==
  LET futureDate == now + days * Day
      matches(rev) == /\ rev.scheduledDate >= now
                      /\ rev.scheduledDate <= futureDate
                      /\ rev.status = "pending"
  IN {Limit(s, limit) : s \in SortByScheduledDate({row \in CalendarRows(userId) : matches(row)})}

\* date.setUTCHours(h, m, s, ms): the given time of day on the date's UTC day
setUTCHours(date, minuteOfDay) == (date \div Day) * Day + minuteOfDay

\* TaskSchema.statics.findRevisionsDueOnDate: the rows, in any order
findRevisionsDueOnDate(userId, date) ==
  LET startOfDay == setUTCHours(date, 0)
      endOfDay == setUTCHours(date, Day - 1)
      matches(rev) == /\ rev.scheduledDate >= startOfDay
                      /\ rev.scheduledDate <= endOfDay
                      /\ rev.status = "pending"
      rows == {row \in CalendarRows(userId) : matches(row)}
  IN {s \in [1..Cardinality(rows) -> rows] :
        \A i, j \in 1..Cardinality(rows) : i # j => s[i] # s[j]}

\* the tasks of getCalendarDay's completedTasks: completed on the host-local
\* day of the date
CompletedOnDay(userId, date) ==
  {id \in DOMAIN tasks :
     /\ tasks[id].user = userId
     /\ ~tasks[id].isArchived
     /\ tasks[id].completedDate >= setHours(date, 0)
     /\ tasks[id].completedDate <= setHours(date, Day - 1)}

\* ---- the stored tasks and the requests of the calendar queries ----

CalNow == 5 * Day + 6 * Hour
CalDays == {0, 1}
CalLimits == {1, 50}
\* req.query.date: a day as YYYY-MM-DD (a UTC midnight)
CalQueryDates == {5 * Day, 6 * Day}

CalStores ==
  LET CalDates == {CalNow - 1, CalNow, CalNow + 1, CalNow + Day, CalNow + Day + 1}
      CalTask(u, d1, st1, d2, archived) ==
        [user |-> u, completedDate |-> 2 * Day, isArchived |-> archived,
         revisions |-> <<[id |-> 1, scheduledDate |-> d1, status |-> st1,
                          completedAt |-> IF st1 = "done" THEN d1 ELSE NoDate],
                         [id |-> 2, scheduledDate |-> d2, status |-> "pending",
                          completedAt |-> NoDate]>>]
  IN {[id \in {"t1", "t2"} |->
         IF id = "t1" THEN CalTask("u1", c[1], c[2], c[3], FALSE)
         ELSE CalTask(c[4], c[5], "pending", CalNow + Day + 1, c[6])] :
        c \in CalDates \X TzStatuses \X CalDates \X Users \X CalDates \X BOOLEAN}

\* what a calendar query returns, with the request it answers
CalOutput(fn, userId, date, days, limit, value) ==
  [fn |-> fn, userId |-> userId, timezone |-> "", date |-> date, value |-> value,
   days |-> days, limit |-> limit]

OverdueRevisionsStep ==
  /\ \E userId \in Users, limit \in CalLimits :
       \E value \in getOverdueRevisions(userId, limit) :
         returned' = CalOutput("getOverdueRevisions", userId, now, 0, limit, value)
  /\ UNCHANGED <<tasks, now, resp, reqs, host, users, run, prev, outbox, proc, env>>

UpcomingRevisionsStep ==
  /\ \E userId \in Users, days \in CalDays, limit \in CalLimits :
       \E value \in getUpcomingRevisions(userId, days, limit) :
         returned' = CalOutput("getUpcomingRevisions", userId, now, days, limit, value)
  /\ UNCHANGED <<tasks, now, resp, reqs, host, users, run, prev, outbox, proc, env>>

\* a day view that stamps the revisions it lists
CalendarDayStepStamping ==
  /\ \E userId \in Users, date \in CalQueryDates :
       \E value \in findRevisionsDueOnDate(userId, date) :
         /\ returned' = CalOutput("getCalendarDay", userId, date, 0, 0, value)
         /\ tasks' = [id \in DOMAIN tasks |->
                        [tasks[id] EXCEPT !.revisions =
                           [i \in 1..Len(tasks[id].revisions) |->
                              IF \E k \in 1..Len(value) :
                                   /\ value[k].taskId = id
                                   /\ value[k].revisionId = tasks[id].revisions[i].id
                              THEN [tasks[id].revisions[i] EXCEPT !.completedAt = now]
                              ELSE tasks[id].revisions[i]]]]
  /\ UNCHANGED <<now, resp, reqs, host, users, run, prev, outbox, proc, env>>

\* getCalendarDay: data.revisionsScheduledForDate; the tasks completed on the
\* day are read as well
CalendarDayStep ==
  /\ \E userId \in Users, date \in CalQueryDates :
       \E value \in findRevisionsDueOnDate(userId, date) :
         /\ returned' = CalOutput("getCalendarDay", userId, date, 0, 0, value)
         /\ CompletedOnDay(userId, date) \subseteq DOMAIN tasks
  /\ UNCHANGED <<tasks, now, resp, reqs, host, users, run, prev, outbox, proc, env>>

InitCal ==
  /\ tasks \in CalStores
  /\ now = CalNow
  /\ resp = NoResponse
  /\ reqs = NoRequests
  /\ JobsIdle

SpecCal ==
  InitCal /\ [][\/ OverdueRevisionsStep \/ UpcomingRevisionsStep
               \/ CalendarDayStep \/ TodaysRevisionsStep]_vars

\* the (task, revision, date) triples of the user's pending revisions on
\* non-archived tasks that are scheduled from lo to hi
PendingBetween(userId, lo, hi) ==
  UNION {{<<id, tasks[id].revisions[i].id, tasks[id].revisions[i].scheduledDate>> :
            i \in {k \in 1..Len(tasks[id].revisions) :
                     /\ tasks[id].revisions[k].status = "pending"
                     /\ tasks[id].revisions[k].scheduledDate >= lo
                     /\ tasks[id].revisions[k].scheduledDate <= hi}} :
           id \in {t \in DOMAIN tasks : tasks[t].user = userId /\ ~tasks[t].isArchived}}

\* the result lists `expected` in ascending order of date, cut at the limit
ListsUpToLimit(value, expected, limit) ==
  LET listed == {<<value[k].taskId, value[k].revisionId, value[k].scheduledDate>> :
                   k \in 1..Len(value)}
  IN /\ listed \subseteq expected
     /\ Cardinality(listed) = Len(value)
     /\ Len(value) = IF Cardinality(expected) < limit THEN Cardinality(expected) ELSE limit
     /\ \A i, j \in 1..Len(value) : i < j => value[i].scheduledDate <= value[j].scheduledDate
     /\ \A e \in expected \ listed : \A l \in listed : l[3] <= e[3]

\* C26: get-overdue returns the pending revisions of the user's non-archived
\* tasks that are scheduled before now, get-upcoming those scheduled from
\* now to now + horizon, each in ascending order of scheduledDate and all of
\* them up to the limit; no revision is in both for the same now.
OverdueAndUpcomingExact ==
  /\ returned.fn = "getOverdueRevisions" =>
       ListsUpToLimit(returned.value, PendingBetween(returned.userId, 0, returned.date - 1),
                      returned.limit)
  /\ returned.fn = "getUpcomingRevisions" =>
       ListsUpToLimit(returned.value,
                      PendingBetween(returned.userId, returned.date,
                                     returned.date + returned.days * Day),
                      returned.limit)
  /\ \A userId \in Users, days \in CalDays :
       \A overdue \in getOverdueRevisions(userId, 50),
          upcoming \in getUpcomingRevisions(userId, days, 50) :
         \A i \in 1..Len(overdue), j \in 1..Len(upcoming) :
           <<overdue[i].taskId, overdue[i].revisionId>>
             # <<upcoming[j].taskId, upcoming[j].revisionId>>

\* an upcoming list was cut at its limit of one while a revision scheduled
\* exactly at now and a later one were due within the horizon
UpcomingCutAtLimit ==
  /\ returned.fn = "getUpcomingRevisions"
  /\ returned.limit = 1
  /\ Len(returned.value) = 1
  /\ returned.value[1].scheduledDate = returned.date
  /\ Cardinality(PendingBetween(returned.userId, returned.date,
                                returned.date + returned.days * Day)) > 1

\* the functions that resolve a due-set
Resolvers ==
  {"getTodaysRevisions", "getCalendarDay", "getUpcomingRevisions", "getOverdueRevisions"}

\* C27: a step that resolves a due-set (the daily path, the calendar day
\* view, upcoming, overdue) leaves every stored task and every field of
\* every revision as it was.
ResolvingChangesNothing ==
  [][returned'.fn \in Resolvers => tasks' = tasks]_vars

\* the day view has listed two revisions of the user for the day
DayViewListedTwo ==
  /\ returned.fn = "getCalendarDay"
  /\ Len(returned.value) = 2

\* the day view and the reminder path, on a server in any of the zones
SpecDue == InitTz /\ [][CalendarDayStep \/ TodaysRevisionsStep]_vars

\* C32: for a user and the calendar date that today is in the user's zone,
\* the day view of that date lists the same (task, revision) pairs as the
\* reminder path resolves for the user.
DayViewAgreesWithReminderPath ==
  \A timezone \in Zones :
    (/\ returned.fn = "getCalendarDay"
     /\ returned.date = LocalMidnight(now, timezone) + Offset(timezone))
      => PairsOf(returned.value) = PairsOf(getTodaysRevisions(returned.userId, timezone, FALSE))

\* ---------------------------------------------------------------------
\* utils/dbUtils.js: the database is the User and the Task collection.
\* listFails: listCollections rejects; failing: the collections whose
\* deleteMany rejects; saveFails: the save of the admin user rejects

Collections == {"users", "tasks"}

DbResult(success, message, userList, taskStore) ==
  [success |-> success, message |-> message, users |-> userList, tasks |-> taskStore]

\* AdminUser: new User({ email: 'admin@gmail.com', isVerified: true,
\* timezone: 'UTC', ... })
createDefaultAdmin(userList, taskStore, saveFails) ==
  LET AdminUser == CronUser("admin", "UTC", TRUE, TRUE) IN
  IF \E k \in 1..Len(userList) : userList[k].id = AdminUser.id
  THEN DbResult(TRUE, "Admin user already exists", userList, taskStore)
  ELSE IF saveFails
  THEN DbResult(FALSE, "Failed to create admin user", userList, taskStore)
  ELSE DbResult(TRUE, "Admin user created successfully", Append(userList, AdminUser), taskStore)

\* a clear without the check of the environment
clearDatabaseInProduction(confirmClear, listFails, failing) ==
  IF ~confirmClear
  THEN DbResult(FALSE, "Database clear operation requires explicit confirmation", users, tasks)
  ELSE IF listFails
  THEN DbResult(FALSE, "Failed to clear database", users, tasks)
  ELSE DbResult(TRUE, "Database cleared successfully",
                IF "users" \in failing THEN users ELSE <<>>,
                IF "tasks" \in failing THEN tasks ELSE EmptyStore)

clearDatabase(confirmClear, listFails, failing) ==
  IF ~confirmClear
  THEN DbResult(FALSE, "Database clear operation requires explicit confirmation", users, tasks)
  ELSE IF env = "production"
  THEN DbResult(FALSE, "Database clearing is not allowed in production environment",
                users, tasks)
  ELSE IF listFails
  THEN DbResult(FALSE, "Failed to clear database", users, tasks)
  ELSE DbResult(TRUE, "Database cleared successfully",
                IF "users" \in failing THEN users ELSE <<>>,
                IF "tasks" \in failing THEN tasks ELSE EmptyStore)

resetDatabaseToDefault(confirmReset, listFails, failing, saveFails) ==
  IF ~confirmReset
  THEN DbResult(FALSE, "Database reset operation requires explicit confirmation", users, tasks)
  ELSE LET clearResult == clearDatabase(TRUE, listFails, failing)
           adminResult == createDefaultAdmin(clearResult.users, clearResult.tasks, saveFails)
       IN IF ~clearResult.success THEN clearResult
          ELSE IF ~adminResult.success
          THEN DbResult(FALSE, "Database cleared but failed to create admin user",
                        clearResult.users, clearResult.tasks)
          ELSE DbResult(TRUE, "Database reset to default state successfully",
                        adminResult.users, adminResult.tasks)

\* the call that was made, its confirmation argument, its result and what
\* it left stored
DbCall(fn, confirm, result) ==
  /\ returned' = [fn |-> fn, userId |-> "", timezone |-> "", date |-> NoDate,
                  value |-> <<>>, confirm |-> confirm, success |-> result.success,
                  message |-> result.message]
  /\ users' = result.users
  /\ tasks' = result.tasks
  /\ UNCHANGED <<now, resp, reqs, host, run, prev, outbox, proc, env>>

CreateDefaultAdminStep ==
  \E saveFails \in BOOLEAN :
    DbCall("createDefaultAdmin", TRUE, createDefaultAdmin(users, tasks, saveFails))

ClearDatabaseStep ==
  \E confirmClear \in BOOLEAN, listFails \in BOOLEAN, failing \in SUBSET Collections :
    DbCall("clearDatabase", confirmClear, clearDatabase(confirmClear, listFails, failing))

ResetDatabaseStep ==
  \E confirmReset \in BOOLEAN, listFails \in BOOLEAN, failing \in SUBSET Collections,
     saveFails \in BOOLEAN :
    DbCall("resetDatabaseToDefault", confirmReset,
           resetDatabaseToDefault(confirmReset, listFails, failing, saveFails))

InitDb ==
  /\ tasks \in CronStores
  /\ users \in CronUsers
  \* NODE_ENV: 'production', another name, or not set
  /\ env \in {"production", "development", ""}
  /\ now = NowStart
  /\ host = "UTC"
  /\ resp = NoResponse
  /\ reqs = NoRequests
  /\ returned = NoOutput
  /\ run = IdleRun
  /\ prev = EmptyStore
  /\ outbox = {}
  /\ proc = ProcessUp

SpecDb == InitDb /\ [][CreateDefaultAdminStep \/ ClearDatabaseStep \/ ResetDatabaseStep]_vars

\* C28: a call of clearDatabase or resetDatabaseToDefault that is not
\* confirmed with true, or is made in the production environment, returns
\* success = false and leaves every collection as it was; so a document is
\* deleted by them only under confirmation outside production.
DestructionNeedsConfirmation ==
  [][(/\ returned'.fn \in {"clearDatabase", "resetDatabaseToDefault"}
      /\ ~(returned'.confirm /\ env # "production"))
       => (/\ returned'.success = FALSE
           /\ users' = users
           /\ tasks' = tasks)]_vars

\* a confirmed reset was refused in production and the tasks are still stored
ResetRefusedInProduction ==
  /\ returned.fn = "resetDatabaseToDefault"
  /\ returned.confirm
  /\ env = "production"
  /\ ~returned.success
  /\ DOMAIN tasks # {}

\* ---------------------------------------------------------------------
\* config/jwt.js, models/User.js, controllers/authController.js:
\* POST /api/auth/refresh.  In this part the clock counts seconds, the
\* resolution of a token's iat.

\* jwt.sign(payload, secret, {expiresIn}): the token is a function of the
\* secret, the payload and the second of signing (iat; exp = iat + expiresIn)
sign(secret, id, at) == [secret |-> secret, id |-> id, iat |-> at]

generateTokens(user, at) ==
  [accessToken |-> sign("JWT_SECRET", user.id, at),
   refreshToken |-> sign("JWT_REFRESH_SECRET", user.id, at)]

\* no cookie, no token issued
NoToken == sign("", "", NoDate)

NoTokens == [accessToken |-> NoToken, refreshToken |-> NoToken]

\* jwt.verify with the refresh secret returns the payload or throws (the
\* 30 days of expiresIn are not reached here)
verifyRefreshToken(token) ==
  [ok |-> token.secret = "JWT_REFRESH_SECRET", id |-> token.id]

\* a user document holds the stored refresh tokens and the version key __v (v)
removeRefreshToken(user, token) ==
  [user EXCEPT !.refreshTokens = SelectSeq(@, LAMBDA rt : rt # token)]

\* an add that keeps the oldest four tokens of a full list
addRefreshTokenKeepOldest(user, token) ==
  LET n == Len(user.refreshTokens)
      kept == IF n >= 5 THEN SubSeq(user.refreshTokens, 1, 4)
              ELSE user.refreshTokens
  IN [user EXCEPT !.refreshTokens = Append(kept, token)]

addRefreshToken(user, token) ==
  LET n == Len(user.refreshTokens)
      kept == IF n >= 5 THEN SubSeq(user.refreshTokens, n - 3, n)
              ELSE user.refreshTokens
  IN [user EXCEPT !.refreshTokens = Append(kept, token)]

\* a clear that leaves the newest token
clearOlderRefreshTokens(user) ==
  [user EXCEPT !.refreshTokens =
     IF @ = <<>> THEN <<>> ELSE <<@[Len(@)]>>]

clearAllRefreshTokens(user) == [user EXCEPT !.refreshTokens = <<>>]

\* User.findById: the positions of the documents with this id
findById(id) == {i \in 1..Len(users) : users[i].id = id}

\* the responses of refresh; issued holds the refresh token set as cookie
\* and the access token of the body.  Status 0: the handler wrote no
\* response, the error went to next(error)
AuthResponse(status, error, code, issued) ==
  [status |-> status, error |-> error, code |-> code, issued |-> issued]

InvalidRefreshToken ==
  AuthResponse(401, "Invalid refresh token", "INVALID_REFRESH_TOKEN", NoTokens)

\* the handler from its entry to `await user.save()`; User.findById reads
\* the stored document
refresh(cookie) ==
  LET decoded == verifyRefreshToken(cookie)
      found == findById(decoded.id)
      answer(response) ==
        [pc |-> "done", fn |-> "refresh", cookie |-> cookie, loaded |-> <<>>,
         doc |-> <<>>, tokens |-> NoTokens, resp |-> response]
  IN IF cookie = NoToken
     THEN answer(AuthResponse(401, "No refresh token provided", "", NoTokens))
     ELSE IF ~decoded.ok THEN answer(InvalidRefreshToken)
     ELSE IF found = {} THEN answer(InvalidRefreshToken)
     ELSE LET user == users[Min(found)]
          IN IF \A i \in 1..Len(user.refreshTokens) : user.refreshTokens[i] # cookie
             THEN answer(InvalidRefreshToken)
             ELSE LET tokens == generateTokens(user, now)
                  IN [pc |-> "saving", fn |-> "refresh", cookie |-> cookie, loaded |-> user,
                      doc |-> addRefreshToken(removeRefreshToken(user, cookie),
                                              tokens.refreshToken),
                      tokens |-> tokens, resp |-> NoResponse]

\* a request arrives.  The cookies a client presents: refresh tokens issued
\* to the user at some second, one of a user that is not stored, an access
\* token, none
RefreshFind ==
  \E r \in ReqIds,
     cookie \in {sign("JWT_REFRESH_SECRET", "u1", at) :
                   at \in (NowStart - 1)..(NowStart + MaxTicks)}
                \cup {sign("JWT_REFRESH_SECRET", "u9", NowStart),
                      sign("JWT_SECRET", "u1", NowStart), NoToken} :
    /\ reqs[r].pc = "idle"
    /\ reqs' = [reqs EXCEPT ![r] = refresh(cookie)]
    /\ UNCHANGED <<tasks, now, resp, host, returned, users, run, prev, outbox, proc, env>>

\* user.save() of a loaded and modified document: the update sets the
\* paths that were modified in memory.  Tokens pushed to refreshTokens are
\* sent as $push, which increments __v; an assigned refreshTokens array is
\* set as a whole, and then the update names the loaded __v in its condition
\* and increments it: when no document matches, save rejects with a
\* VersionError, which the handler passes to next(error).  Otherwise the
\* handler sends its response (the cookie and the access token, when it
\* issued tokens)
UserSave ==
  \E r \in ReqIds :
    /\ reqs[r].pc = "saving"
    /\ LET loaded == reqs[r].loaded
           doc == reqs[r].doc
           i == Min(findById(loaded.id))
           n == Len(loaded.refreshTokens)
           pushed == /\ Len(doc.refreshTokens) > n
                     /\ SubSeq(doc.refreshTokens, 1, n) = loaded.refreshTokens
           assigned == ~pushed /\ doc.refreshTokens # loaded.refreshTokens
           written ==
             [path \in DOMAIN users[i] |->
                IF path = "refreshTokens"
                THEN IF pushed
                     THEN users[i].refreshTokens
                            \o SubSeq(doc.refreshTokens, n + 1, Len(doc.refreshTokens))
                     ELSE IF assigned THEN doc.refreshTokens
                     ELSE users[i].refreshTokens
                ELSE IF path = "v"
                THEN IF pushed \/ assigned THEN users[i].v + 1 ELSE users[i].v
                ELSE IF doc[path] # loaded[path] THEN doc[path] ELSE users[i][path]]
       IN IF assigned /\ users[i].v # loaded.v
          THEN /\ users' = users
               /\ reqs' = [reqs EXCEPT
                             ![r].pc = "done", ![r].loaded = <<>>, ![r].doc = <<>>,
                             ![r].tokens = NoTokens,
                             ![r].resp = AuthResponse(0, "VersionError", "", NoTokens)]
          ELSE /\ users' = [users EXCEPT ![i] = written]
               /\ reqs' = [reqs EXCEPT
                             ![r].pc = "done", ![r].loaded = <<>>, ![r].doc = <<>>,
                             ![r].tokens = NoTokens,
                             ![r].resp = AuthResponse(200, "", "", reqs[r].tokens)]
    /\ UNCHANGED <<tasks, now, resp, host, returned, run, prev, outbox, proc, env>>

\* the user has logged in once or twice, in the last second or in this one;
\* each login pushed its refresh token
InitAuth ==
  /\ \E tokens \in SeqsUpTo({sign("JWT_REFRESH_SECRET", "u1", at) :
                               at \in (NowStart - 1)..NowStart}, 2) :
       /\ tokens # <<>>
       /\ users = <<[id |-> "u1", refreshTokens |-> tokens, v |-> Len(tokens)]>>
  /\ tasks = EmptyStore
  /\ now = NowStart
  /\ resp = NoResponse
  /\ reqs = NoRequests
  /\ returned = NoOutput
  /\ host = "UTC"
  /\ run = IdleRun
  /\ prev = EmptyStore
  /\ outbox = {}
  /\ proc = ProcessUp
  /\ env = "development"

SpecAuth == InitAuth /\ [][RefreshFind \/ UserSave \/ Tick]_vars

\* C29: a refresh token is accepted at most once: when a refresh that
\* presented a token has succeeded, every other refresh that presents the
\* same token, after it or concurrently with it, is answered with the
\* invalid-refresh-token response and issues no tokens.
RefreshTokenAcceptedOnce ==
  \A r1, r2 \in ReqIds :
    (/\ r1 # r2
     /\ reqs[r1].pc = "done"
     /\ reqs[r2].pc = "done"
     /\ reqs[r1].resp.status = 200
     /\ reqs[r2].cookie = reqs[r1].cookie)
      => reqs[r2].resp = InvalidRefreshToken

\* ---------------------------------------------------------------------
\* models/User.js, controllers/authController.js, services/cronService.js:
\* the email-verification and password-reset tokens and the tokenCleanup job.
\* A user document holds id (the email), isVerified and the four paths the
\* schema declares for the two tokens

\* a token field that is not set
NoHash == <<>>

\* sha256 of the token a mail carried: the kind, the user and the time of issue
Hashed(kind, id, at) == <<kind, id, at>>

\* the call that was made, what it answered (a status code, or the
\* modifiedCount the job logs) and what it stored
TokenCall(fn, userId, success, value, userList) ==
  /\ returned' = [fn |-> fn, userId |-> userId, timezone |-> "", date |-> now,
                  value |-> <<value>>, success |-> success]
  /\ users' = userList
  /\ UNCHANGED <<tasks, now, resp, reqs, host, run, prev, outbox, proc, env>>

TokenEmails == {"u1", "u2"}

\* the expiries of the stored tokens: passed, reached now, an hour ahead
TokenExpiries == {NowStart - Hour, NowStart, NowStart + Hour}

\* the tokens a request presents: those that were mailed
MailedTokens ==
  {Hashed(kind, id, e) : kind \in {"verify", "reset"}, id \in TokenEmails,
                         e \in TokenExpiries \cup {NowStart + Hour + 1}}

\* POST /api/auth/forgot-password
forgotPassword ==
  \E email \in TokenEmails \cup {"u9"}, emailFails \in BOOLEAN :
    LET found == {i \in 1..Len(users) : users[i].id = email}
        i == Min(found)
        issued == [users EXCEPT ![i].passwordResetToken = Hashed("reset", email, now),
                                ![i].passwordResetExpires = now + Hour]
        cleared == [users EXCEPT ![i].passwordResetToken = NoHash,
                                 ![i].passwordResetExpires = NoDate]
    IN IF found = {} THEN TokenCall("forgotPassword", email, FALSE, 404, users)
       ELSE IF emailFails THEN TokenCall("forgotPassword", email, FALSE, 500, cleared)
       ELSE TokenCall("forgotPassword", email, TRUE, 200, issued)

\* POST /api/auth/reset-password
resetPassword ==
  \E token \in MailedTokens :
    LET found == {i \in 1..Len(users) :
                    /\ users[i].passwordResetToken = token
                    /\ users[i].passwordResetExpires > now}
        i == Min(found)
    IN IF found = {} THEN TokenCall("resetPassword", "", FALSE, 400, users)
       ELSE TokenCall("resetPassword", users[i].id, TRUE, 200,
                      [users EXCEPT ![i].passwordResetToken = NoHash,
                                    ![i].passwordResetExpires = NoDate])

\* POST /api/auth/verify-email
verifyEmail ==
  \E token \in MailedTokens :
    LET found == {i \in 1..Len(users) :
                    /\ users[i].emailVerificationToken = token
                    /\ users[i].emailVerificationExpires > now}
        i == Min(found)
    IN IF found = {} THEN TokenCall("verifyEmail", "", FALSE, 400, users)
       ELSE TokenCall("verifyEmail", users[i].id, TRUE, 200,
                      [users EXCEPT ![i].isVerified = TRUE,
                                    ![i].emailVerificationToken = NoHash,
                                    ![i].emailVerificationExpires = NoDate])

\* the paths of the User schema
UserPaths ==
  {"id", "isVerified", "emailVerificationToken", "emailVerificationExpires",
   "passwordResetToken", "passwordResetExpires"}

\* { path: { $lt: date } }.  A path the schema does not declare is in no
\* document; with strictQuery the condition on it is dropped from the filter
\* and the emptied clause matches every document
LessThan(user, path, date, strictQuery) ==
  IF path \in UserPaths THEN user[path] # NoDate /\ user[path] < date
  ELSE strictQuery

\* $unset of a path: a path the schema does not declare is in no document
Unset(user, path) ==
  IF path \notin UserPaths THEN user
  ELSE [user EXCEPT ![path] = IF path \in {"emailVerificationToken", "passwordResetToken"}
                              THEN NoHash ELSE NoDate]

\* the tokenCleanup job: one User.updateMany; its failure is logged
tokenCleanup ==
  \E strictQuery \in BOOLEAN, updateFails \in BOOLEAN :
    LET matched == {i \in 1..Len(users) :
                      \/ LessThan(users[i], "resetPasswordExpires", now, strictQuery)
                      \/ LessThan(users[i], "emailVerificationExpires", now, strictQuery)}
        unset(user) ==
          Unset(Unset(Unset(Unset(user, "resetPasswordToken"), "resetPasswordExpires"),
                      "emailVerificationToken"), "emailVerificationExpires")
        updated == [i \in 1..Len(users) |->
                      IF i \in matched THEN unset(users[i]) ELSE users[i]]
        modifiedCount == Cardinality({i \in matched : updated[i] # users[i]})
    IN IF updateFails THEN TokenCall("tokenCleanup", "", FALSE, 0, users)
       ELSE TokenCall("tokenCleanup", "", TRUE, modifiedCount, updated)

\* the stored users: each has signed up (a verified user holds no
\* verification token) and has asked for a password reset or not; a token
\* is stored together with its expiry
TokenUsers ==
  LET states(kind, id) ==
        {<<NoHash, NoDate>>} \cup
          {<<Hashed(kind, id, e), e>> : e \in TokenExpiries}
      docs(id) == {[id |-> id, isVerified |-> ev[1] = NoHash,
                    emailVerificationToken |-> ev[1],
                    emailVerificationExpires |-> ev[2],
                    passwordResetToken |-> pr[1],
                    passwordResetExpires |-> pr[2]] :
                     ev \in states("verify", id), pr \in states("reset", id)}
  IN {<<a, b>> : a \in docs("u1"), b \in docs("u2")}

InitTokens ==
  /\ users \in TokenUsers
  /\ tasks = EmptyStore
  /\ now = NowStart
  /\ resp = NoResponse
  /\ reqs = NoRequests
  /\ returned = NoOutput
  /\ host = "UTC"
  /\ run = IdleRun
  /\ prev = EmptyStore
  /\ outbox = {}
  /\ proc = ProcessUp
  /\ env = "development"

SpecTokens ==
  InitTokens /\ [][forgotPassword \/ resetPassword \/ verifyEmail \/ tokenCleanup \/ Tick]_vars

\* a token that is stored with an expiry before `at`
Expired(token, expires, at) == token # NoHash /\ expires # NoDate /\ expires < at

\* C30: when the token-cleanup job has run (its update succeeded), no user
\* holds an email-verification token or a password-reset token whose expiry
\* is in the past.
NoExpiredTokenAfterCleanup ==
  [][(returned'.fn = "tokenCleanup" /\ returned'.success /\ now' = now)
       => \A i \in 1..Len(users') :
            /\ ~Expired(users'[i].emailVerificationToken,
                        users'[i].emailVerificationExpires, now')
            /\ ~Expired(users'[i].passwordResetToken,
                        users'[i].passwordResetExpires, now')]_vars

\* ---------------------------------------------------------------------
\* models/User.js, controllers/authController.js: the account.  The clock
\* counts seconds here, as for the refresh tokens.  A user document holds
\* id (the email) and the paths of the schema that the handlers read and
\* write; lastLogin, which nothing reads, is left out.

\* new User({ email }): the defaults of the schema
NewUser(email) ==
  [id |-> email, passwordHash |-> NoHash, isVerified |-> FALSE,
   twoFactorEnabled |-> FALSE, otpSecret |-> NoHash, otpExpires |-> NoDate,
   refreshTokens |-> <<>>, emailVerificationToken |-> NoHash,
   emailVerificationExpires |-> NoDate, lastVerificationEmailSent |-> NoDate,
   passwordResetToken |-> NoHash, passwordResetExpires |-> NoDate,
   loginAttempts |-> 0, lockUntil |-> NoDate, v |-> 0]

\* POST /api/auth/signup
signup ==
  /\ \E r \in ReqIds, email \in {"u1", "u9"}, password \in {"p1", "p2"} :
       LET found == {i \in 1..Len(users) : users[i].id = email}
           i == Min(found)
           \* User.findOne({ email }): a path declared with select: false is
           \* undefined in the loaded document, the query names none of them
           unselected == {"passwordHash", "otpSecret", "otpExpires",
                          "emailVerificationToken", "emailVerificationExpires",
                          "lastVerificationEmailSent", "passwordResetToken",
                          "passwordResetExpires"}
           existingUser == [path \in DOMAIN users[i] |->
                              IF path \in unselected THEN NoDate ELSE users[i][path]]
           lastEmailTime == existingUser.lastVerificationEmailSent
           signedUp(user) ==
             [user EXCEPT !.passwordHash = <<"bcrypt", password>>,
                          !.emailVerificationToken = Hashed("verify", email, now),
                          !.emailVerificationExpires = now + 24 * Hour * 60,
                          !.lastVerificationEmailSent = now]
           answer(status, error, userList) ==
             /\ reqs' = [reqs EXCEPT ![r] =
                           [pc |-> "done", fn |-> "signup", email |-> email,
                            resp |-> AuthResponse(status, error, "", NoTokens)]]
             /\ users' = userList
       IN /\ reqs[r].pc = "idle"
          /\ IF found = {}
             THEN answer(201, "", Append(users, signedUp(NewUser(email))))
             ELSE IF existingUser.isVerified
             THEN answer(400, "User with this email already exists", users)
             ELSE IF lastEmailTime # NoDate /\ now - lastEmailTime < 5 * 60
             THEN answer(429, "Please wait", users)
             ELSE answer(201, "", [users EXCEPT ![i] = signedUp(@)])
  /\ UNCHANGED <<tasks, now, resp, host, returned, run, prev, outbox, proc, env>>

\* the failed password attempts a client is let make in a row
MaxLoginFailures == 6

\* POST /api/auth/login, from its entry to the update it awaits first.
\* User.findOne({ email }).select('+passwordHash') reads the stored document
login ==
  /\ \E r \in ReqIds, email \in {"u1", "u9"}, password \in {"p1", "p2"} :
       LET found == {i \in 1..Len(users) : users[i].id = email}
           user == users[Min(found)]
           isLocked == user.lockUntil # NoDate /\ user.lockUntil > now
           isPasswordValid == user.passwordHash = <<"bcrypt", password>>
           answer(status, error) ==
             [pc |-> "done", fn |-> "login", email |-> email,
              loaded |-> <<>>, doc |-> <<>>, tokens |-> NoTokens,
              resp |-> AuthResponse(status, error, "", NoTokens)]
       IN /\ reqs[r].pc = "idle"
          /\ Len(returned.value) < MaxLoginFailures
          /\ reqs' = [reqs EXCEPT ![r] =
                        IF found = {} THEN answer(401, "Invalid credentials")
                        ELSE IF isLocked THEN answer(423, "Account temporarily locked")
                        ELSE [pc |-> IF isPasswordValid THEN "resetLoginAttempts"
                                     ELSE "incLoginAttempts",
                              fn |-> "login", email |-> email,
                              loaded |-> user, doc |-> user, tokens |-> NoTokens,
                              resp |-> NoResponse]]
  /\ UNCHANGED <<tasks, now, resp, host, returned, users, run, prev, outbox, proc, env>>

\* the updateOne of user.incLoginAttempts() or of user.resetLoginAttempts()
\* reaches the database; `this` is the document the handler loaded.  After a
\* failed attempt the handler answers 401; after a valid password it sets
\* the OTP or signs the tokens and goes on to user.save().  returned.value
\* lists the 401 answers to wrong passwords since the last valid password
LoginUpdate ==
  /\ \E r \in ReqIds :
       LET this == reqs[r].loaded
           i == Min(findById(this.id))
           isLocked == this.lockUntil # NoDate /\ this.lockUntil > now
           tokens == generateTokens(this, now)
       IN \/ /\ reqs[r].pc = "incLoginAttempts"
             /\ users' =
                  IF this.lockUntil # NoDate /\ this.lockUntil < now
                  THEN [users EXCEPT ![i].lockUntil = NoDate, ![i].loginAttempts = 1]
                  ELSE [users EXCEPT
                          ![i].loginAttempts = @ + 1,
                          ![i].lockUntil = IF this.loginAttempts + 1 >= 5 /\ ~isLocked
                                           THEN now + 2 * Hour * 60 ELSE @]
             /\ reqs' = [reqs EXCEPT ![r].pc = "done", ![r].loaded = <<>>, ![r].doc = <<>>,
                                     ![r].resp = AuthResponse(401, "Invalid credentials",
                                                              "", NoTokens)]
             /\ returned' = [fn |-> "login", userId |-> this.id, timezone |-> "",
                             date |-> NoDate, value |-> Append(returned.value, 401)]
          \/ /\ reqs[r].pc = "resetLoginAttempts"
             /\ users' = [users EXCEPT ![i].loginAttempts = 0, ![i].lockUntil = NoDate]
             /\ reqs' = [reqs EXCEPT
                           ![r].pc = "saving",
                           ![r].tokens = IF this.twoFactorEnabled THEN NoTokens ELSE tokens,
                           ![r].doc =
                              IF this.twoFactorEnabled
                              THEN [this EXCEPT !.otpSecret = Hashed("otp", this.id, now),
                                                !.otpExpires = now + 10 * 60]
                              ELSE addRefreshToken(this, tokens.refreshToken)]
             /\ returned' = [fn |-> "login", userId |-> this.id, timezone |-> "",
                             date |-> NoDate, value |-> <<>>]
  /\ UNCHANGED <<tasks, now, resp, host, run, prev, outbox, proc, env>>

\* the response has gone out and the handler has returned
ResponseOut ==
  /\ \E r \in ReqIds :
       /\ reqs[r].pc = "done"
       /\ reqs' = [reqs EXCEPT ![r] = NoRequests[r]]
  /\ UNCHANGED <<tasks, now, resp, host, returned, users, run, prev, outbox, proc, env>>

\* the stored users at the start; no request is in flight
InitAccount(userLists) ==
  /\ users \in userLists
  /\ tasks = EmptyStore
  /\ now = NowStart
  /\ resp = NoResponse
  /\ reqs = NoRequests
  /\ returned = NoOutput
  /\ host = "UTC"
  /\ run = IdleRun
  /\ prev = EmptyStore
  /\ outbox = {}
  /\ proc = ProcessUp
  /\ env = "development"

\* signup on its own; u1 has signed up with password p1 some time ago and
\* has verified the email or not
SpecSignup ==
  /\ InitAccount(
       {<<[NewUser("u1") EXCEPT
             !.passwordHash = <<"bcrypt", "p1">>,
             !.isVerified = verified,
             !.emailVerificationToken =
                IF verified THEN NoHash ELSE Hashed("verify", "u1", NowStart - ago),
             !.emailVerificationExpires =
                IF verified THEN NoDate ELSE NowStart - ago + 24 * Hour * 60,
             !.lastVerificationEmailSent = NowStart - ago]>> :
          verified \in BOOLEAN, ago \in {1, 5 * 60 - 1, 5 * 60, 24 * Hour * 60}})
  /\ [][signup \/ ResponseOut \/ Tick]_vars

\* C36: a signup for the email of a stored user that is not verified, made
\* less than 5 minutes after the user's last verification email, is answered
\* with 429 and leaves the user's password hash and verification token as
\* they were.
RepeatSignupRejected ==
  [][\A r \in ReqIds, i \in 1..Len(users) :
       (/\ reqs[r].pc = "idle"
        /\ reqs'[r].pc = "done"
        /\ reqs'[r].fn = "signup"
        /\ reqs'[r].email = users[i].id
        /\ ~users[i].isVerified
        /\ now - users[i].lastVerificationEmailSent < 5 * 60)
         => /\ reqs'[r].resp.status = 429
            /\ users'[i].passwordHash = users[i].passwordHash
            /\ users'[i].emailVerificationToken = users[i].emailVerificationToken
    ]_vars

\* logins of u1, who has signed up with password p1 and verified the email,
\* two at a time and within one second
SpecLock ==
  /\ InitAccount({<<[NewUser("u1") EXCEPT !.passwordHash = <<"bcrypt", "p1">>,
                                          !.isVerified = TRUE,
                                          !.twoFactorEnabled = twoFactor]>> :
                    twoFactor \in BOOLEAN})
  /\ [][login \/ LoginUpdate \/ UserSave \/ ResponseOut]_vars

\* C37: when 5 or more logins in a row have been answered 401 for a wrong
\* password, with no login with the valid password in between, the account
\* is locked: lockUntil is in the future, at most 2 hours ahead.  A login
\* that finds the account locked answers 423 and issues no tokens, also with
\* the valid password.
LockedAfterFiveFailures ==
  [][/\ \A i \in 1..Len(users') :
          (returned'.userId = users'[i].id /\ Len(returned'.value) >= 5)
            => /\ users'[i].lockUntil > now'
               /\ users'[i].lockUntil <= now' + 2 * Hour * 60
     /\ \A r \in ReqIds, i \in 1..Len(users) :
          (/\ reqs[r].pc = "idle"
           /\ reqs'[r].pc # "idle"
           /\ reqs'[r].email = users[i].id
           /\ users[i].lockUntil > now)
            => /\ reqs'[r].pc = "done"
               /\ reqs'[r].resp.status = 423
               /\ reqs'[r].resp.issued = NoTokens
    ]_vars

\* POST /api/auth/verify-otp, from its entry to `await user.save()`.  The
\* client presents an OTP that was mailed to u1 at some second, or another
verifyOTP ==
  /\ \E r \in ReqIds,
        hashedOTP \in {Hashed("otp", "u1", at) : at \in NowStart..(NowStart + MaxTicks)}
                      \cup {Hashed("otp", "u9", NowStart)} :
       LET found == {i \in 1..Len(users) : /\ users[i].otpSecret = hashedOTP
                                            /\ users[i].otpExpires > now}
           user == users[Min(found)]
           tokens == generateTokens(user, now)
       IN /\ reqs[r].pc = "idle"
          /\ reqs' = [reqs EXCEPT ![r] =
                        IF found = {}
                        THEN [pc |-> "done", fn |-> "verifyOTP", email |-> "",
                              loaded |-> <<>>, doc |-> <<>>, tokens |-> NoTokens,
                              resp |-> AuthResponse(400, "Invalid or expired OTP",
                                                    "", NoTokens)]
                        ELSE [pc |-> "saving", fn |-> "verifyOTP", email |-> user.id,
                              loaded |-> user,
                              doc |-> addRefreshToken(
                                        [user EXCEPT !.otpSecret = NoHash,
                                                     !.otpExpires = NoDate],
                                        tokens.refreshToken),
                              tokens |-> tokens, resp |-> NoResponse]]
  /\ UNCHANGED <<tasks, now, resp, host, returned, users, run, prev, outbox, proc, env>>

\* POST /api/auth/logout behind verifyAccessToken, from its entry to
\* `await req.user.save()`.  The bearer token names a stored user or one
\* that is not stored; the cookie is a refresh token of u1 or is missing
logout ==
  /\ \E r \in ReqIds, id \in {"u1", "u9"},
        refreshToken \in {sign("JWT_REFRESH_SECRET", "u1", at) :
                            at \in NowStart..(NowStart + MaxTicks)} \cup {NoToken} :
       LET found == findById(id)
           user == users[Min(found)]
           answer(status, error) ==
             [pc |-> "done", fn |-> "logout", email |-> id,
              loaded |-> <<>>, doc |-> <<>>, tokens |-> NoTokens,
              resp |-> AuthResponse(status, error, "", NoTokens)]
       IN /\ reqs[r].pc = "idle"
          /\ reqs' = [reqs EXCEPT ![r] =
                        IF found = {} THEN answer(401, "Invalid token. User not found.")
                        ELSE IF refreshToken = NoToken THEN answer(200, "")
                        ELSE [pc |-> "saving", fn |-> "logout", email |-> id,
                              loaded |-> user,
                              doc |-> removeRefreshToken(user, refreshToken),
                              tokens |-> NoTokens, resp |-> NoResponse]]
  /\ UNCHANGED <<tasks, now, resp, host, returned, users, run, prev, outbox, proc, env>>

\* POST /api/auth/reset-password, from its entry to `await user.save()`.
\* The client presents the token that was mailed to u1 or another
ResetPasswordFind ==
  /\ \E r \in ReqIds,
        hashedToken \in {Hashed("reset", "u1", NowStart - 1),
                         Hashed("reset", "u9", NowStart - 1)},
        password \in {"p1", "p2"} :
       LET found == {i \in 1..Len(users) : /\ users[i].passwordResetToken = hashedToken
                                            /\ users[i].passwordResetExpires > now}
           user == users[Min(found)]
       IN /\ reqs[r].pc = "idle"
          /\ reqs' = [reqs EXCEPT ![r] =
                        IF found = {}
                        THEN [pc |-> "done", fn |-> "resetPassword", email |-> "",
                              loaded |-> <<>>, doc |-> <<>>, tokens |-> NoTokens,
                              resp |-> AuthResponse(400, "Invalid or expired reset token",
                                                    "", NoTokens)]
                        ELSE [pc |-> "saving", fn |-> "resetPassword", email |-> user.id,
                              loaded |-> user,
                              doc |-> clearAllRefreshTokens(
                                        [user EXCEPT !.passwordHash = <<"bcrypt", password>>,
                                                     !.passwordResetToken = NoHash,
                                                     !.passwordResetExpires = NoDate]),
                              tokens |-> NoTokens, resp |-> NoResponse]]
  /\ UNCHANGED <<tasks, now, resp, host, returned, users, run, prev, outbox, proc, env>>

\* the changes of a user's stored token list (the version key __v) after
\* which no further request arrives
MaxStores == 6

\* the sessions of u1, one request at a time: u1 has signed up with password
\* p1, has verified the email and, a second ago, has asked for a password
\* reset.  After a login with a wrong password no further login is made
SpecSession ==
  /\ InitAccount({<<[NewUser("u1") EXCEPT
                       !.passwordHash = <<"bcrypt", "p1">>,
                       !.isVerified = TRUE,
                       !.twoFactorEnabled = twoFactor,
                       !.passwordResetToken = Hashed("reset", "u1", NowStart - 1),
                       !.passwordResetExpires = NowStart - 1 + Hour * 60]>> :
                    twoFactor \in BOOLEAN})
  /\ [][\/ /\ login
           /\ returned.value = <<>>
           /\ reqs'["b"].pc = "idle"
           /\ \A i \in 1..Len(users) : users[i].v < MaxStores
        \/ /\ verifyOTP
           /\ reqs'["b"].pc = "idle"
           /\ \A i \in 1..Len(users) : users[i].v < MaxStores
        \/ /\ RefreshFind
           /\ reqs'["b"].pc = "idle"
           /\ \A i \in 1..Len(users) : users[i].v < MaxStores
        \/ /\ logout
           /\ reqs'["b"].pc = "idle"
           /\ \A i \in 1..Len(users) : users[i].v < MaxStores
        \/ /\ ResetPasswordFind
           /\ reqs'["b"].pc = "idle"
           /\ \A i \in 1..Len(users) : users[i].v < MaxStores
        \/ LoginUpdate \/ UserSave \/ ResponseOut \/ Tick]_vars

AtMostFiveRefreshTokens ==
  [][\A i \in 1..Len(users') :
       /\ Len(users'[i].refreshTokens) <= 5
       /\ \A r \in ReqIds :
            (/\ reqs[r].pc = "saving"
             /\ reqs[r].fn \in {"login", "verifyOTP"}
             /\ reqs[r].tokens # NoTokens
             /\ reqs[r].email = users[i].id
             /\ Len(users[i].refreshTokens) = 5
             /\ reqs'[r].pc = "done")
              => users'[i].refreshTokens =
                   Append(SubSeq(users[i].refreshTokens, 2, 5),
                          reqs[r].tokens.refreshToken)
    ]_vars

\* a login is about to save its token to a list of 5 whose oldest token
\* differs from the others kept: in memory the list is again 5 long and
\* ends with the new token
SixthTokenAdded ==
  \E r \in ReqIds :
    /\ reqs[r].pc = "saving"
    /\ reqs[r].fn = "login"
    /\ Len(reqs[r].loaded.refreshTokens) = 5
    /\ reqs[r].loaded.refreshTokens[1] # reqs[r].loaded.refreshTokens[2]
    /\ Len(reqs[r].doc.refreshTokens) = 5
    /\ reqs[r].doc.refreshTokens[5] = reqs[r].tokens.refreshToken

=============================================================================
